---- MODULE Spec2Model ----
(***************************************************************************)
(* Model of the bill-data-app sync pipeline: the sync orchestrator         *)
(* (runFullSync / runIncrementalSync), the per-bill reconciler             *)
(* (processBill / processAmendment / fetchMemberDetails), the sync         *)
(* trigger route, and the rate-limited fetch client (fetchWithRetry and    *)
(* the PQueue admission queue).                                            *)
(***************************************************************************)
EXTENDS Integers, Sequences, FiniteSets, TLC

(* ---------------------------------------------------------------------- *)
(* Bounds of the model                                                     *)
(* ---------------------------------------------------------------------- *)
MaxRuns == 2      \* sync runs started in one behaviour
MaxFaults == 1    \* injected exceptions (store / upstream failures)
MaxTriggers == 2  \* POST /sync/run requests received in one behaviour

Runs == 1..MaxRuns
Triggers == 1..MaxTriggers

(* ---------------------------------------------------------------------- *)
(* Upstream gateway: the data the two upstream APIs return                 *)
(* ---------------------------------------------------------------------- *)

\* ParliamentApiClient.getSessions: the static table (endDate 0 is null).
getSessions ==
  << [id |-> 39, name |-> "2024-25", endDate |-> 0],
     [id |-> 38, name |-> "2023-24", endDate |-> 20240530],
     [id |-> 37, name |-> "2022-23", endDate |-> 20231026] >>

\* The upstream contents the model draws from.  v tags every payload field
\* that is passed through unchanged (titles, descriptions, decision, ...),
\* so that a write that keeps stale content is visible.
\*   v = 1: bill 1 sits in session 38 only; amendment 101 has sponsors 10, 11
\*   v = 2: bill 1 is carried over (included sessions 38, 39, listed under
\*          both); amendment 101 has sponsor 11 only; bill 2 is withdrawn
\*   v = 3: bill 1 has no included-session list, is listed under 39 and 38
\*          and is withdrawn; the sponsors' sort orders are not positions
\*   v = 6: bill 1 is carried over into session 40, which the session table
\*          does not list yet (included sessions 39, 40)
Versions == {1, 2, 3, 6}

\* Two small upstreams for the server, where runs overlap: only bill 1 exists,
\* listed under session 39, with amendment 101 and a single sponsor.
\*   v = 4: the sponsor is member 10
\*   v = 5: the sponsor is member 11
ServerVersions == {4, 5}

\* Two upstreams in which content is removed between runs.
\*   v = 7: bill 1 has the stages 11 and 12 (sitting 121); stage 11 has the
\*          amendments 101 and 102; the bills 2, 3 and 4 are active
\*   v = 8: stage 12, its sitting and amendment 102 are gone; bill 2 is
\*          withdrawn, bill 3 defeated and bill 4 an act
RemovalVersions == {7, 8}

UpBill(v, b) ==
  [ billId |-> b,
    includedSessionIds |->
      IF b = 1 THEN (CASE v = 1 -> <<38>> [] v = 2 -> <<38, 39>>
                       [] v = 6 -> <<39, 40>> [] OTHER -> <<>>)
      ELSE IF b = 2 THEN <<38>> ELSE <<37>>,
    introducedSessionId |-> IF b \in {1, 2} THEN 38 ELSE 37,
    billWithdrawn |-> (b = 1 /\ v = 3) \/ (b = 2 /\ v \in {2, 8}),  \* TRUE: a date is set
    isDefeated |-> (b = 3 /\ v # 7),
    isAct |-> (b = 4 /\ v # 7),
    rev |-> v ]

\* GET /Bills?Session=s
UpBills(v, s) ==
  IF v \in ServerVersions
  THEN (IF s = 39 THEN << UpBill(v, 1) >> ELSE <<>>)
  ELSE (CASE s = 39 -> IF v = 1 THEN <<>> ELSE << UpBill(v, 1) >>
          [] s = 38 -> << UpBill(v, 1), UpBill(v, 2) >>
          [] OTHER  -> << UpBill(v, 3), UpBill(v, 4) >>)

\* GET /Bills/b/Stages (a sitting date of 0 is null)
UpStages(v, b) ==
  IF b = 1
  THEN << [ id |-> 11, rev |-> v,
            stageSittings |-> << [id |-> 111, date |-> IF v = 1 THEN 0 ELSE 20240101 + v] >> ] >>
       \o (IF v = 7
           THEN << [ id |-> 12, rev |-> v,
                     stageSittings |-> << [id |-> 121, date |-> 20240101 + v] >> ] >>
           ELSE <<>>)
  ELSE <<>>

\* a sponsor of an amendment payload (house "" is absent)
UpSponsor(v, m, sortOrder) ==
  [ memberId |-> m, sortOrder |-> sortOrder, rev |-> v,
    house |-> IF m = 10 THEN "Commons" ELSE "" ]

UpSponsors(v) ==
  CASE v = 1 -> << UpSponsor(v, 10, 0), UpSponsor(v, 11, 1) >>
    [] v = 2 -> << UpSponsor(v, 11, 0) >>
    [] v = 4 -> << UpSponsor(v, 10, 0) >>
    [] v = 5 -> << UpSponsor(v, 11, 0) >>
    [] OTHER -> << UpSponsor(v, 11, 1), UpSponsor(v, 10, 2) >>

\* GET /Bills/b/Stages/st/Amendments (dNum 0 is absent)
UpAmendments(v, st) ==
  IF st = 11
  THEN << [ amendmentId |-> 101, rev |-> v, dNum |-> IF v = 3 THEN 0 ELSE 700 + v,
            sponsors |-> UpSponsors(v) ] >>
       \o (IF v = 7
           THEN << [ amendmentId |-> 102, rev |-> v, dNum |-> 800 + v,
                     sponsors |-> UpSponsors(v) ] >>
           ELSE <<>>)
  ELSE <<>>

\* GET /Members/m : the profile (house code 1 = Commons)
UpMember(v, m) ==
  [ value |-> TRUE, rev |-> v, house |-> IF m = 10 THEN 1 ELSE 2 ]

(* ---------------------------------------------------------------------- *)
(* State                                                                   *)
(* ---------------------------------------------------------------------- *)
VARIABLES
  up,          \* the upstream version currently served
  sessionT,    \* Session table:          id -> row
  billT,       \* Bill table:             id -> row
  stageT,      \* BillStage table:        id -> row
  sittingT,    \* BillStageSitting table: id -> row
  amendT,      \* Amendment table:        id -> row
  sponsorT,    \* AmendmentSponsor table: rows in insertion order
  memberT,     \* Member table:           id -> row
  syncLog,     \* SyncLog table: row i has id i (autoincrement)
  run,         \* the activation record of each sync run
  clock,       \* the store's clock (new Date())
  faults,      \* exceptions injected so far
  pre,         \* the data tables as they were when the latest run started
  serverKey,   \* process.env.SYNC_API_KEY ("" when not configured)
  trigger,     \* the POST /sync/run requests and where their handlers stand
  call,        \* the activation of fetchWithRetry: one upstream call
  listing,     \* the latest answer of getBillsForSession
  statusReply  \* the latest answer of GET /sync/status

vars == << up, sessionT, billT, stageT, sittingT, amendT, sponsorT, memberT,
           syncLog, run, clock, faults, pre, serverKey, trigger, call, listing,
           statusReply >>

routeVars == << serverKey, trigger >>

clientVars == << call >>

listVars == << listing >>
statusVars == << statusReply >>

dataVars == << sessionT, billT, stageT, sittingT, amendT, sponsorT, memberT >>

Data == [ sessions |-> sessionT, bills |-> billT, stages |-> stageT,
          sittings |-> sittingT, amendments |-> amendT, sponsors |-> sponsorT,
          members |-> memberT ]

\* interface SyncStats, as initialised at the top of a run
ZeroStats ==
  [ sessionsProcessed |-> 0, billsProcessed |-> 0, billsSkipped |-> 0,
    stagesProcessed |-> 0, amendmentsProcessed |-> 0, membersProcessed |-> 0,
    errors |-> <<>> ]

IdleRun ==
  [ pc |-> "idle", type |-> "none", world |-> 0, logId |-> 0,
    stats |-> ZeroStats, memberIdsToFetch |-> <<>>,
    si |-> 1, bills |-> <<>>, bi |-> 1,
    existingBill |-> [found |-> FALSE, sessionId |-> 0],
    stages |-> <<>>, sti |-> 1, ski |-> 1,
    amendments |-> <<>>, ai |-> 1, spi |-> 1,
    mi |-> 1, memberData |-> [value |-> FALSE, rev |-> 0, house |-> 0],
    requested |-> <<>>,
    error |-> "", thrown |-> <<>>, outcome |-> "none", raised |-> "" ]

EmptyTable == [x \in {} |-> 0]

\* GET /sync/status has not been asked
NoReply == [ code |-> 0 ]

\* a request that has not arrived yet
\* getBillsForSession has not been called yet
NoListing == [ sessionId |-> 0, held |-> 0, bills |-> <<>> ]

\* no upstream call has been made yet
IdleCall ==
  [ pc |-> "idle", url |-> "", retries |-> 0, requests |-> 0,
    status |-> 0, responses |-> <<>>, sleeps |-> <<>>, served |-> 0, result |-> 0,
    error |-> [kind |-> "none"] ]

NewTrigger ==
  [ pc |-> "new", type |-> "", runningSync |-> 0,
    status |-> 0, ackType |-> "", startedAt |-> 0, run |-> 0 ]

Init ==
  /\ up \in Versions
  /\ sessionT = EmptyTable /\ billT = EmptyTable /\ stageT = EmptyTable
  /\ sittingT = EmptyTable /\ amendT = EmptyTable /\ memberT = EmptyTable
  /\ sponsorT = <<>>
  /\ syncLog = <<>>
  /\ run = [r \in Runs |-> IdleRun]
  /\ clock = 1
  /\ faults = 0
  /\ pre = Data
  /\ serverKey = "secret"
  /\ call = IdleCall
  /\ listing = NoListing
  /\ statusReply = NoReply
  /\ trigger = [q \in Triggers |-> NewTrigger]

(* ---------------------------------------------------------------------- *)
(* Store primitives (Prisma)                                               *)
(* ---------------------------------------------------------------------- *)
Has(t, k) == k \in DOMAIN t

\* prisma.X.upsert / create / update by primary key: the row for k becomes row
Put(t, k, row) == [x \in DOMAIN t \cup {k} |-> IF x = k THEN row ELSE t[x]]

Range(s) == {s[i] : i \in DOMAIN s}

Max(S) == CHOOSE x \in S : \A y \in S : y <= x

\* faulty variant: the ids are kept in a list, repeats included
SetAdd_Repeats(s, m) == Append(s, m)

\* Set.add on the insertion-ordered Set<number> (memberIdsToFetch)
SetAdd(s, m) == IF m \in Range(s) THEN s ELSE Append(s, m)

(* ---------------------------------------------------------------------- *)
(* Sync orchestrator: control flow of runFullSync / runIncrementalSync     *)
(* ---------------------------------------------------------------------- *)
Idle(r) == run[r].pc \in {"idle", "done"}
NoActiveRun == \A r \in Runs : Idle(r)

\* the payloads the run is positioned on
CurSession(rr) == getSessions[rr.si]
CurBill(rr) == rr.bills[rr.bi]
CurStage(rr) == rr.stages[rr.sti]
CurSitting(rr) == CurStage(rr).stageSittings[rr.ski]
CurAmendment(rr) == rr.amendments[rr.ai]
CurSponsor(rr) == CurAmendment(rr).sponsors[rr.spi]
CurMemberId(rr) == rr.memberIdsToFetch[rr.mi]

\* after the bill loop: fetchMemberDetails over Array.from(memberIds), then
\* the completing write
BeginMembers(rr) ==
  IF rr.memberIdsToFetch = <<>>
  THEN [rr EXCEPT !.pc = "complete"]
  ELSE [rr EXCEPT !.pc = "getMember", !.mi = 1]

NextMember(rr) ==
  IF rr.mi < Len(rr.memberIdsToFetch)
  THEN [rr EXCEPT !.pc = "getMember", !.mi = @ + 1]
  ELSE [rr EXCEPT !.pc = "complete"]

\* for (const session of sessions) { getBillsForSession ... }
NextSession(rr) ==
  IF rr.si < Len(getSessions)
  THEN [rr EXCEPT !.pc = "fetchBills", !.si = @ + 1]
  ELSE BeginMembers(rr)

\* for (const bill of bills) { processBill; sleep(BILL_DELAY_MS) }
NextBill(rr) ==
  IF rr.bi < Len(rr.bills)
  THEN [rr EXCEPT !.pc = "findBill", !.bi = @ + 1]
  ELSE NextSession(rr)

\* for (const stage of stages) { ... }
NextStage(rr) ==
  IF rr.sti < Len(rr.stages)
  THEN [rr EXCEPT !.pc = "upsertStage", !.sti = @ + 1]
  ELSE NextBill(rr)

\* for (const amendment of amendments) { processAmendment }
NextAmendment(rr) ==
  IF rr.ai < Len(rr.amendments)
  THEN [rr EXCEPT !.pc = "upsertAmendment", !.ai = @ + 1]
  ELSE NextStage(rr)

\* faulty variant: the sponsor loop stops one sponsor early
NextSponsor_SkipLast(rr) ==
  IF rr.spi < Len(CurAmendment(rr).sponsors) - 1
  THEN [rr EXCEPT !.pc = "upsertMember", !.spi = @ + 1]
  ELSE NextAmendment(rr)

\* for (const sponsor of amendment.sponsors) { ... }
NextSponsor(rr) ==
  IF rr.spi < Len(CurAmendment(rr).sponsors)
  THEN [rr EXCEPT !.pc = "upsertMember", !.spi = @ + 1]
  ELSE NextAmendment(rr)

\* faulty variant: no bill is filtered out
isActiveBill_All(bill) == TRUE

\* faulty variant: acts are not filtered out
isActiveBill_NoAct(bill) == ~bill.billWithdrawn /\ ~bill.isDefeated

\* incremental-sync.ts isActiveBill
isActiveBill(bill) ==
  LET isWithdrawn == bill.billWithdrawn
  IN  ~isWithdrawn /\ ~bill.isDefeated /\ ~bill.isAct

\* faulty variant: the included-session list is ignored
actualSessionId_Iterated(bill, sessionId) == sessionId

\* processBill: the authoritative session id of an upstream bill
actualSessionId(bill, sessionId) ==
  IF Len(bill.includedSessionIds) > 0
  THEN Max(Range(bill.includedSessionIds))
  ELSE sessionId

\* faulty variant: the update branch always writes sessionId
shouldUpdateSession_Always(existingBill, actual) == TRUE

\* processBill: whether the upsert's update branch writes sessionId
shouldUpdateSession(existingBill, actual) ==
  ~existingBill.found \/ actual > existingBill.sessionId

\* the row prisma.bill.upsert leaves for the bill
BillRow(t, bill, existingBill, actual) ==
  [ sessionId |->
      IF Has(t, bill.billId)
      THEN (IF shouldUpdateSession(existingBill, actual)
            THEN actual ELSE t[bill.billId].sessionId)
      ELSE actual,
    introducedSessionId |-> bill.introducedSessionId,
    isWithdrawn |-> bill.billWithdrawn,
    isDefeated |-> bill.isDefeated,
    isAct |-> bill.isAct,
    rev |-> bill.rev ]

\* faulty variant: every upserted session is flagged current
SessionRow_AllCurrent(session) ==
  [ name |-> session.name, endDate |-> session.endDate, isCurrent |-> TRUE ]

\* the row prisma.session.upsert leaves for a session
SessionRow(session) ==
  [ name |-> session.name, endDate |-> session.endDate,
    isCurrent |-> (session.endDate = 0) ]

\* the row prisma.billStage.upsert leaves for a stage
StageRow(stage, billId) == [ billId |-> billId, rev |-> stage.rev ]

\* the row prisma.billStageSitting.upsert leaves for a sitting
SittingRow(sitting, stage, billId) ==
  [ billStageId |-> stage.id, billId |-> billId, date |-> sitting.date ]

\* the row prisma.amendment.upsert leaves; the incremental variant never
\* writes dNum (a created row has it null, an updated row keeps it)
AmendmentRow(t, amendment, billStageId, type) ==
  [ billStageId |-> billStageId,
    rev |-> amendment.rev,
    dNum |-> IF type = "full" THEN amendment.dNum
             ELSE IF Has(t, amendment.amendmentId)
                  THEN t[amendment.amendmentId].dNum ELSE 0 ]

\* faulty variant: the sponsor rows of every amendment are deleted
DeleteSponsors_All(t, amendmentId) == << >>

\* faulty variant: the row of the lead sponsor survives the delete
DeleteSponsors_KeepLead(t, amendmentId) ==
  SelectSeq(t, LAMBDA row : row.amendmentId # amendmentId \/ row.isLead)

\* faulty variant: the existing sponsor rows are not deleted
DeleteSponsors_None(t, amendmentId) == t

\* prisma.amendmentSponsor.deleteMany({ where: { amendmentId } })
DeleteSponsors(t, amendmentId) ==
  SelectSeq(t, LAMBDA row : row.amendmentId # amendmentId)

\* faulty variant: no sponsor row is flagged as lead
SponsorRow_NoLead(amendmentId, sponsor) ==
  [ amendmentId |-> amendmentId, memberId |-> sponsor.memberId,
    isLead |-> FALSE, sortOrder |-> sponsor.sortOrder ]

\* the row prisma.amendmentSponsor.create inserts
SponsorRow(amendmentId, sponsor) ==
  [ amendmentId |-> amendmentId, memberId |-> sponsor.memberId,
    isLead |-> (sponsor.sortOrder = 0), sortOrder |-> sponsor.sortOrder ]

\* the minimal member row written from a sponsor payload
SponsorMemberRow(sponsor) ==
  [ src |-> "sponsor", rev |-> sponsor.rev,
    house |-> IF sponsor.house = "" THEN "Unknown" ELSE sponsor.house ]

\* the member row fetchMemberDetails writes from a profile
ProfileMemberRow(member) ==
  [ src |-> "profile", rev |-> member.rev,
    house |-> IF member.house = 1 THEN "Commons" ELSE "Lords" ]

(* ---------------------------------------------------------------------- *)
(* Sync orchestrator: the steps of a run (one per awaited operation)       *)
(* ---------------------------------------------------------------------- *)

\* runFullSync() / runIncrementalSync() is called: the run's locals are set up
\* and its first store operation (the log row's creation) is issued
BeginRun(r, type) ==
  /\ run[r].pc = "idle"
  /\ \A q \in Runs : q < r => run[q].pc # "idle"
  /\ run' = [run EXCEPT ![r] = [IdleRun EXCEPT !.pc = "create", !.type = type,
                                               !.world = up]]
  /\ pre' = Data

\* the CLI scripts and the cron entry point: main() calls the sync function
\* without consulting the sync log
StartRun(r, type) ==
  /\ BeginRun(r, type)
  /\ UNCHANGED << up, dataVars, syncLog, clock, faults, routeVars, clientVars, listVars, statusVars >>

\* prisma.syncLog.create({ type, status: 'running' })
CreateLog(r) ==
  /\ run[r].pc = "create"
  /\ syncLog' = Append(syncLog, [ type |-> run[r].type, status |-> "running",
                                  completedAt |-> 0, error |-> <<>>,
                                  stats |-> <<>> ])
  /\ run' = [run EXCEPT ![r].pc = "upsertSession", ![r].logId = Len(syncLog) + 1,
                        ![r].si = 1]
  /\ UNCHANGED << up, dataVars, clock, faults, pre, routeVars, clientVars, listVars, statusVars >>

\* prisma.session.upsert for the next session of the list
UpsertSession(r) ==
  LET rr == run[r]
      session == CurSession(rr)
      counted == [rr EXCEPT !.stats.sessionsProcessed = @ + 1]
  IN  /\ rr.pc = "upsertSession"
      /\ sessionT' = Put(sessionT, session.id, SessionRow(session))
      /\ run' = [run EXCEPT ![r] =
                   IF rr.si < Len(getSessions)
                   THEN [counted EXCEPT !.si = @ + 1]
                   ELSE [counted EXCEPT !.pc = "fetchBills", !.si = 1]]
      /\ UNCHANGED << up, billT, stageT, sittingT, amendT, sponsorT, memberT,
                      syncLog, clock, faults, pre, routeVars, clientVars, listVars, statusVars >>

\* parliamentApi.getBillsForSession(session.id); the incremental variant
\* keeps the active bills and counts the others as skipped
FetchBills(r) ==
  LET rr == run[r]
      bills == UpBills(up, CurSession(rr).id)
      activeBills == SelectSeq(bills, isActiveBill)
      kept == IF rr.type = "full" THEN bills ELSE activeBills
      skipped == IF rr.type = "full" THEN 0 ELSE Len(bills) - Len(activeBills)
      got == [rr EXCEPT !.bills = kept, !.bi = 1,
                        !.stats.billsSkipped = @ + skipped]
  IN  /\ rr.pc = "fetchBills"
      /\ run' = [run EXCEPT ![r] =
                   IF kept = <<>> THEN NextSession(got)
                   ELSE [got EXCEPT !.pc = "findBill"]]
      /\ UNCHANGED << up, dataVars, syncLog, clock, faults, pre, routeVars, clientVars, listVars, statusVars >>

\* processBill: prisma.bill.findUnique({ select: { sessionId } })
FindBill(r) ==
  LET rr == run[r]
      id == CurBill(rr).billId
  IN  /\ rr.pc = "findBill"
      /\ run' = [run EXCEPT ![r].pc = "upsertBill",
                            ![r].existingBill =
                               IF Has(billT, id)
                               THEN [found |-> TRUE, sessionId |-> billT[id].sessionId]
                               ELSE [found |-> FALSE, sessionId |-> 0]]
      /\ UNCHANGED << up, dataVars, syncLog, clock, faults, pre, routeVars, clientVars, listVars, statusVars >>

\* faulty variant: no per-bill catch, the exception reaches the run's outer catch
BillCatch_Rethrow(rr, error) == [rr EXCEPT !.pc = "fail", !.error = error]

\* catch around processBill: the error string is pushed, the loop goes on
\* (the pacing sleep is skipped)
BillCatch(rr, error) ==
  NextBill([rr EXCEPT !.stats.errors =
              Append(@, [kind |-> "bill", id |-> CurBill(rr).billId, error |-> error])])

\* the Bill table's relation to Session: the store accepts a bill row only
\* if its session is stored
SessionStored(row) == Has(sessionT, row.sessionId)

\* faulty variant: a bill that is already stored is not counted again
UpsertBill_CountOnce(r) ==
  LET rr == run[r]
      bill == CurBill(rr)
      actual == actualSessionId(bill, CurSession(rr).id)
      row == BillRow(billT, bill, rr.existingBill, actual)
      noted == [rr EXCEPT !.thrown = Append(@, [at |-> rr.pc, id |-> bill.billId])]
  IN  /\ rr.pc = "upsertBill"
      /\ IF SessionStored(row)
         THEN /\ billT' = Put(billT, bill.billId, row)
              /\ run' = [run EXCEPT ![r].pc = "getStages",
                                    ![r].stats.billsProcessed =
                                       IF Has(billT, bill.billId) THEN @ ELSE @ + 1]
         ELSE /\ billT' = billT
              /\ run' = [run EXCEPT ![r] = BillCatch(noted, rr.pc)]
      /\ UNCHANGED << up, sessionT, stageT, sittingT, amendT, sponsorT, memberT,
                      syncLog, clock, faults, pre, routeVars, clientVars, listVars, statusVars >>

\* processBill: prisma.bill.upsert, then stats.billsProcessed++.  A row the
\* store refuses makes the upsert reject, which the per-bill catch handles.
UpsertBill(r) ==
  LET rr == run[r]
      bill == CurBill(rr)
      actual == actualSessionId(bill, CurSession(rr).id)
      row == BillRow(billT, bill, rr.existingBill, actual)
      noted == [rr EXCEPT !.thrown = Append(@, [at |-> rr.pc, id |-> bill.billId])]
  IN  /\ rr.pc = "upsertBill"
      /\ IF SessionStored(row)
         THEN /\ billT' = Put(billT, bill.billId, row)
              /\ run' = [run EXCEPT ![r].pc = "getStages",
                                    ![r].stats.billsProcessed = @ + 1]
         ELSE /\ billT' = billT
              /\ run' = [run EXCEPT ![r] = BillCatch(noted, rr.pc)]
      /\ UNCHANGED << up, sessionT, stageT, sittingT, amendT, sponsorT, memberT,
                      syncLog, clock, faults, pre, routeVars, clientVars, listVars, statusVars >>

\* processBill: parliamentApi.getBillStages(bill.billId)
GetStages(r) ==
  LET rr == run[r]
      stages == UpStages(up, CurBill(rr).billId)
      got == [rr EXCEPT !.stages = stages, !.sti = 1]
  IN  /\ rr.pc = "getStages"
      /\ run' = [run EXCEPT ![r] =
                   IF stages = <<>> THEN NextBill(got)
                   ELSE [got EXCEPT !.pc = "upsertStage"]]
      /\ UNCHANGED << up, dataVars, syncLog, clock, faults, pre, routeVars, clientVars, listVars, statusVars >>

\* faulty variant: the sitting loop is entered whatever the type of the run
UpsertStage_Sittings(r) ==
  LET rr == run[r]
      stage == CurStage(rr)
  IN  /\ rr.pc = "upsertStage"
      /\ stageT' = Put(stageT, stage.id, StageRow(stage, CurBill(rr).billId))
      /\ run' = [run EXCEPT ![r].stats.stagesProcessed = @ + 1,
                            ![r].ski = 1,
                            ![r].pc = IF stage.stageSittings # <<>>
                                      THEN "upsertSitting" ELSE "getAmendments"]
      /\ UNCHANGED << up, sessionT, billT, sittingT, amendT, sponsorT, memberT,
                      syncLog, clock, faults, pre, routeVars, clientVars, listVars, statusVars >>

\* processBill: prisma.billStage.upsert, then stats.stagesProcessed++; the
\* full variant goes on to the stage's sittings
UpsertStage(r) ==
  LET rr == run[r]
      stage == CurStage(rr)
  IN  /\ rr.pc = "upsertStage"
      /\ stageT' = Put(stageT, stage.id, StageRow(stage, CurBill(rr).billId))
      /\ run' = [run EXCEPT ![r].stats.stagesProcessed = @ + 1,
                            ![r].ski = 1,
                            ![r].pc = IF rr.type = "full" /\ stage.stageSittings # <<>>
                                      THEN "upsertSitting" ELSE "getAmendments"]
      /\ UNCHANGED << up, sessionT, billT, sittingT, amendT, sponsorT, memberT,
                      syncLog, clock, faults, pre, routeVars, clientVars, listVars, statusVars >>

\* processBill (full-sync.ts only): prisma.billStageSitting.upsert
UpsertSitting(r) ==
  LET rr == run[r]
      sitting == CurSitting(rr)
  IN  /\ rr.pc = "upsertSitting"
      /\ sittingT' = Put(sittingT, sitting.id,
                         SittingRow(sitting, CurStage(rr), CurBill(rr).billId))
      /\ run' = [run EXCEPT ![r] =
                   IF rr.ski < Len(CurStage(rr).stageSittings)
                   THEN [rr EXCEPT !.ski = @ + 1]
                   ELSE [rr EXCEPT !.pc = "getAmendments"]]
      /\ UNCHANGED << up, sessionT, billT, stageT, amendT, sponsorT, memberT,
                      syncLog, clock, faults, pre, routeVars, clientVars, listVars, statusVars >>

\* processBill: parliamentApi.getAmendments(bill.billId, stage.id)
GetAmendments(r) ==
  LET rr == run[r]
      amendments == UpAmendments(up, CurStage(rr).id)
      got == [rr EXCEPT !.amendments = amendments, !.ai = 1]
  IN  /\ rr.pc = "getAmendments"
      /\ run' = [run EXCEPT ![r] =
                   IF amendments = <<>> THEN NextStage(got)
                   ELSE [got EXCEPT !.pc = "upsertAmendment"]]
      /\ UNCHANGED << up, dataVars, syncLog, clock, faults, pre, routeVars, clientVars, listVars, statusVars >>

\* processAmendment: prisma.amendment.upsert, then stats.amendmentsProcessed++
UpsertAmendment(r) ==
  LET rr == run[r]
      amendment == CurAmendment(rr)
  IN  /\ rr.pc = "upsertAmendment"
      /\ amendT' = Put(amendT, amendment.amendmentId,
                       AmendmentRow(amendT, amendment, CurStage(rr).id, rr.type))
      /\ run' = [run EXCEPT ![r].pc = "deleteSponsors",
                            ![r].stats.amendmentsProcessed = @ + 1]
      /\ UNCHANGED << up, sessionT, billT, stageT, sittingT, sponsorT, memberT,
                      syncLog, clock, faults, pre, routeVars, clientVars, listVars, statusVars >>

\* processAmendment: prisma.amendmentSponsor.deleteMany; when the payload has
\* sponsors the first one's id is added to memberIdsToFetch before the next
\* store operation is issued
ClearSponsors(r) ==
  LET rr == run[r]
      amendment == CurAmendment(rr)
      first == [rr EXCEPT !.spi = 1]
  IN  /\ rr.pc = "deleteSponsors"
      /\ sponsorT' = DeleteSponsors(sponsorT, amendment.amendmentId)
      /\ run' = [run EXCEPT ![r] =
                   IF amendment.sponsors = <<>> THEN NextAmendment(first)
                   ELSE [first EXCEPT !.pc = "upsertMember",
                                      !.memberIdsToFetch =
                                         SetAdd(@, amendment.sponsors[1].memberId)]]
      /\ UNCHANGED << up, sessionT, billT, stageT, sittingT, amendT, memberT,
                      syncLog, clock, faults, pre, routeVars, clientVars, listVars, statusVars >>

\* faulty variant: the sponsor's member row is not written before the sponsor row
UpsertMember_Skip(r) ==
  LET rr == run[r]
  IN  /\ rr.pc = "upsertMember"
      /\ run' = [run EXCEPT ![r].pc = "createSponsor"]
      /\ UNCHANGED << up, sessionT, billT, stageT, sittingT, amendT, sponsorT,
                      memberT, syncLog, clock, faults, pre, routeVars,
                      clientVars, listVars, statusVars >>

\* processAmendment: prisma.member.upsert from the sponsor payload
UpsertMember(r) ==
  LET rr == run[r]
      sponsor == CurSponsor(rr)
  IN  /\ rr.pc = "upsertMember"
      /\ memberT' = Put(memberT, sponsor.memberId, SponsorMemberRow(sponsor))
      /\ run' = [run EXCEPT ![r].pc = "createSponsor"]
      /\ UNCHANGED << up, sessionT, billT, stageT, sittingT, amendT, sponsorT,
                      syncLog, clock, faults, pre, routeVars, clientVars, listVars, statusVars >>

\* processAmendment: prisma.amendmentSponsor.create; the next sponsor's id is
\* added to memberIdsToFetch before its member upsert is issued
CreateSponsor(r) ==
  LET rr == run[r]
      amendment == CurAmendment(rr)
      nxt == NextSponsor(rr)
  IN  /\ rr.pc = "createSponsor"
      /\ sponsorT' = Append(sponsorT, SponsorRow(amendment.amendmentId, CurSponsor(rr)))
      /\ run' = [run EXCEPT ![r] =
                   IF nxt.pc = "upsertMember"
                   THEN [nxt EXCEPT !.memberIdsToFetch = SetAdd(@, CurSponsor(nxt).memberId)]
                   ELSE nxt]
      /\ UNCHANGED << up, sessionT, billT, stageT, sittingT, amendT, memberT,
                      syncLog, clock, faults, pre, routeVars, clientVars, listVars, statusVars >>

\* fetchMemberDetails: parliamentApi.getMember(memberId) answers a profile
GetMember(r) ==
  LET rr == run[r]
      memberData == UpMember(up, CurMemberId(rr))
      asked == [rr EXCEPT !.requested = Append(@, CurMemberId(rr))]
  IN  /\ rr.pc = "getMember"
      /\ run' = [run EXCEPT ![r] =
                   IF memberData.value
                   THEN [asked EXCEPT !.pc = "updateMember", !.memberData = memberData]
                   ELSE NextMember(asked)]
      /\ UNCHANGED << up, dataVars, syncLog, clock, faults, pre, routeVars, clientVars, listVars, statusVars >>

\* fetchMemberDetails: prisma.member.update (rejects when the row is missing,
\* which the loop's catch swallows), then stats.membersProcessed++
UpdateMember(r) ==
  LET rr == run[r]
      id == CurMemberId(rr)
  IN  /\ rr.pc = "updateMember"
      /\ IF Has(memberT, id)
         THEN /\ memberT' = Put(memberT, id, ProfileMemberRow(rr.memberData))
              /\ run' = [run EXCEPT ![r] =
                           NextMember([rr EXCEPT !.stats.membersProcessed = @ + 1])]
         ELSE /\ memberT' = memberT
              /\ run' = [run EXCEPT ![r] = NextMember(rr)]
      /\ UNCHANGED << up, sessionT, billT, stageT, sittingT, amendT, sponsorT,
                      syncLog, clock, faults, pre, routeVars, clientVars, listVars, statusVars >>

\* faulty variant: the completing write leaves the statistics out
CompletedRow_NoStats(row, now, stats) ==
  [row EXCEPT !.status = "completed", !.completedAt = now]

\* the SyncLog row after prisma.syncLog.update marks it completed
CompletedRow(row, now, stats) ==
  [row EXCEPT !.status = "completed", !.completedAt = now, !.stats = <<stats>>]

\* faulty variant: the failing write leaves the statistics out
FailedRow_NoStats(row, now, error, stats) ==
  [row EXCEPT !.status = "failed", !.completedAt = now, !.error = <<error>>]

\* the SyncLog row after prisma.syncLog.update marks it failed
FailedRow(row, now, error, stats) ==
  [row EXCEPT !.status = "failed", !.completedAt = now, !.error = <<error>>,
              !.stats = <<stats>>]

\* the completing write of a run, then `return stats`
Complete(r) ==
  LET rr == run[r]
  IN  /\ rr.pc = "complete"
      /\ syncLog' = [syncLog EXCEPT ![rr.logId] = CompletedRow(@, clock, rr.stats)]
      /\ clock' = clock + 1
      /\ run' = [run EXCEPT ![r].pc = "done", ![r].outcome = "returned"]
      /\ UNCHANGED << up, dataVars, faults, pre, routeVars, clientVars, listVars, statusVars >>

\* faulty variant: the catch rethrows without writing the row
MarkFailed_NoWrite(r) ==
  LET rr == run[r]
  IN  /\ rr.pc = "fail"
      /\ run' = [run EXCEPT ![r].pc = "done", ![r].outcome = "threw",
                            ![r].raised = rr.error]
      /\ UNCHANGED << up, dataVars, syncLog, clock, faults, pre, routeVars,
                      clientVars, listVars, statusVars >>

\* the outer catch: the failing write of a run, then `throw error`
MarkFailed(r) ==
  LET rr == run[r]
  IN  /\ rr.pc = "fail"
      /\ syncLog' = [syncLog EXCEPT ![rr.logId] = FailedRow(@, clock, rr.error, rr.stats)]
      /\ clock' = clock + 1
      /\ run' = [run EXCEPT ![r].pc = "done", ![r].outcome = "threw",
                            ![r].raised = rr.error]
      /\ UNCHANGED << up, dataVars, faults, pre, routeVars, clientVars, listVars, statusVars >>

(* ---------------------------------------------------------------------- *)
(* Failures: an awaited store or upstream operation rejects                *)
(* ---------------------------------------------------------------------- *)
MayFail == faults < MaxFaults

\* the steps of processBill / processAmendment, all inside the per-bill try
BillPcs == { "findBill", "upsertBill", "getStages", "upsertStage", "upsertSitting",
             "getAmendments", "upsertAmendment", "deleteSponsors", "upsertMember",
             "createSponsor" }

\* faulty variant: a failed bill-list fetch escapes to the outer catch
SessionCatch_Abort(rr, error) == [rr EXCEPT !.pc = "fail", !.error = error]

\* catch around getBillsForSession: the error string is pushed, `continue`
SessionCatch(rr, error) ==
  NextSession([rr EXCEPT !.stats.errors =
                 Append(@, [kind |-> "session", id |-> CurSession(rr).id, error |-> error])])

\* the outer catch of the run is entered with the exception
OuterCatch(rr, error) == [rr EXCEPT !.pc = "fail", !.error = error]

\* a step of processBill rejects
BillThrows(r) ==
  LET rr == run[r]
      noted == [rr EXCEPT !.thrown = Append(@, [at |-> rr.pc, id |-> CurBill(rr).billId])]
  IN  /\ rr.pc \in BillPcs
      /\ MayFail
      /\ faults' = faults + 1
      /\ run' = [run EXCEPT ![r] = BillCatch(noted, rr.pc)]
      /\ UNCHANGED << up, dataVars, syncLog, clock, pre, routeVars, clientVars, listVars, statusVars >>

\* getBillsForSession rejects
FetchBillsThrows(r) ==
  LET rr == run[r]
      noted == [rr EXCEPT !.thrown = Append(@, [at |-> rr.pc, id |-> CurSession(rr).id])]
  IN  /\ rr.pc = "fetchBills"
      /\ MayFail
      /\ faults' = faults + 1
      /\ run' = [run EXCEPT ![r] = SessionCatch(noted, rr.pc)]
      /\ UNCHANGED << up, dataVars, syncLog, clock, pre, routeVars, clientVars, listVars, statusVars >>

\* a session upsert or the completing write rejects: the outer catch
FatalThrows(r) ==
  LET rr == run[r]
      noted == [rr EXCEPT !.thrown = Append(@, [at |-> rr.pc, id |-> 0])]
  IN  /\ rr.pc \in {"upsertSession", "complete"}
      /\ MayFail
      /\ faults' = faults + 1
      /\ run' = [run EXCEPT ![r] = OuterCatch(noted, rr.pc)]
      /\ UNCHANGED << up, dataVars, syncLog, clock, pre, routeVars, clientVars, listVars, statusVars >>

\* the upstream answers the bill list request with a body that has no
\* `items`: getBillsForSession returns undefined, and iterating (full) or
\* filtering (incremental) it throws a TypeError outside the inner catches
BillListMalformed(r) ==
  LET rr == run[r]
      noted == [rr EXCEPT !.thrown = Append(@, [at |-> "billLoop", id |-> CurSession(rr).id])]
  IN  /\ rr.pc = "fetchBills"
      /\ MayFail
      /\ faults' = faults + 1
      /\ run' = [run EXCEPT ![r] = OuterCatch(noted, "billLoop")]
      /\ UNCHANGED << up, dataVars, syncLog, clock, pre, routeVars, clientVars, listVars, statusVars >>

\* faulty variant: getMember has no catch and fetchMemberDetails no try
GetMemberFails_Throws(r) ==
  LET rr == run[r]
      noted == [rr EXCEPT !.thrown = Append(@, [at |-> rr.pc, id |-> CurMemberId(rr)]),
                          !.requested = Append(@, CurMemberId(rr))]
  IN  /\ rr.pc = "getMember"
      /\ MayFail
      /\ faults' = faults + 1
      /\ run' = [run EXCEPT ![r] = OuterCatch(noted, rr.pc)]
      /\ UNCHANGED << up, dataVars, syncLog, clock, pre, routeVars, clientVars, listVars, statusVars >>

\* the member request fails: getMember catches and answers null, so
\* fetchMemberDetails skips the member
GetMemberFails(r) ==
  LET rr == run[r]
      noted == [rr EXCEPT !.thrown = Append(@, [at |-> rr.pc, id |-> CurMemberId(rr)]),
                          !.requested = Append(@, CurMemberId(rr))]
  IN  /\ rr.pc = "getMember"
      /\ MayFail
      /\ faults' = faults + 1
      /\ run' = [run EXCEPT ![r] = NextMember(noted)]
      /\ UNCHANGED << up, dataVars, syncLog, clock, pre, routeVars, clientVars, listVars, statusVars >>

\* the member update rejects: the catch inside fetchMemberDetails' loop
UpdateMemberThrows(r) ==
  LET rr == run[r]
      noted == [rr EXCEPT !.thrown = Append(@, [at |-> rr.pc, id |-> CurMemberId(rr)])]
  IN  /\ rr.pc = "updateMember"
      /\ MayFail
      /\ faults' = faults + 1
      /\ run' = [run EXCEPT ![r] = NextMember(noted)]
      /\ UNCHANGED << up, dataVars, syncLog, clock, pre, routeVars, clientVars, listVars, statusVars >>

\* the failing write itself rejects (the store failure that brought the run
\* into the outer catch persists, or the store fails now): the rejection
\* leaves the run, the row is not written
MarkFailedThrows(r) ==
  LET rr == run[r]
  IN  /\ rr.pc = "fail"
      /\ faults' = faults
      /\ run' = [run EXCEPT ![r].pc = "done", ![r].outcome = "threw",
                            ![r].raised = rr.pc,
                            ![r].thrown = Append(@, [at |-> rr.pc, id |-> 0])]
      /\ UNCHANGED << up, dataVars, syncLog, clock, pre, routeVars, clientVars, listVars, statusVars >>

\* the upstream's contents change (between runs)
UpstreamChange ==
  /\ NoActiveRun
  /\ \E r \in Runs : run[r].pc = "done"
  /\ \E r \in Runs : run[r].pc = "idle"
  /\ up' \in Versions \ {up}
  /\ UNCHANGED << dataVars, syncLog, run, clock, faults, pre, routeVars, clientVars, listVars, statusVars >>

(* ---------------------------------------------------------------------- *)
(* The sync trigger route: POST /api/v1/sync/run                           *)
(* ---------------------------------------------------------------------- *)

\* faulty variant: a missing or wrong key is let through
TriggerArrives_AnyKey(q, apiKey, type) ==
  /\ trigger[q].pc = "new"
  /\ \A p \in Triggers : p < q => trigger[p].pc # "new"
  /\ trigger' = [trigger EXCEPT ![q] =
       IF serverKey = ""
       THEN [@ EXCEPT !.pc = "done", !.status = 500]
       ELSE [@ EXCEPT !.pc = "findRunning", !.type = type]]
  /\ UNCHANGED << up, dataVars, syncLog, run, clock, faults, pre, serverKey, clientVars, listVars, statusVars >>

\* the handler's key check; a request that passes it issues the query for a
\* running sync
TriggerArrives(q, apiKey, type) ==
  /\ trigger[q].pc = "new"
  /\ \A p \in Triggers : p < q => trigger[p].pc # "new"
  /\ trigger' = [trigger EXCEPT ![q] =
       IF serverKey = ""
       THEN [@ EXCEPT !.pc = "done", !.status = 500]
       ELSE IF apiKey = "" \/ apiKey # serverKey
       THEN [@ EXCEPT !.pc = "done", !.status = 401]
       ELSE [@ EXCEPT !.pc = "findRunning", !.type = type]]
  /\ UNCHANGED << up, dataVars, syncLog, run, clock, faults, pre, serverKey, clientVars, listVars, statusVars >>

\* faulty variant: the query never finds a row
FindRunning_None(log) == 0

\* prisma.syncLog.findFirst({ where: { status: 'running' } })
FindRunning(log) ==
  IF \E i \in DOMAIN log : log[i].status = "running"
  THEN CHOOSE i \in DOMAIN log :
         /\ log[i].status = "running"
         /\ \A j \in DOMAIN log : log[j].status = "running" => i <= j
  ELSE 0

\* faulty variant: a running row the query finds is marked failed and the
\* handler proceeds as if there were none
TriggerFindRunning_Sweep(q) ==
  LET found == FindRunning(syncLog)
  IN  /\ trigger[q].pc = "findRunning"
      /\ trigger' = [trigger EXCEPT ![q].pc = "respond", ![q].runningSync = 0]
      /\ syncLog' = IF found = 0 THEN syncLog
                    ELSE [syncLog EXCEPT ![found].status = "failed"]
      /\ UNCHANGED << up, dataVars, run, clock, faults, pre, serverKey, clientVars, listVars, statusVars >>

\* the store answers the handler's query
TriggerFindRunning(q) ==
  /\ trigger[q].pc = "findRunning"
  /\ trigger' = [trigger EXCEPT ![q].pc = "respond",
                                ![q].runningSync = FindRunning(syncLog)]
  /\ UNCHANGED << up, dataVars, syncLog, run, clock, faults, pre, serverKey, clientVars, listVars, statusVars >>

\* faulty variant: an absent type means a full sync
SyncTypeOf_Full(type) == IF type = "" THEN "full" ELSE type

\* req.query.type || 'incremental'
SyncTypeOf(type) == IF type = "" THEN "incremental" ELSE type

\* faulty variant: the log is read again when the answer is sent
TriggerRespond_Recheck(q) ==
  LET t == trigger[q]
      syncType == SyncTypeOf(t.type)
  IN  /\ t.pc = "respond"
      /\ IF FindRunning(syncLog) # 0
         THEN /\ trigger' = [trigger EXCEPT ![q].pc = "done", ![q].status = 409,
                                            ![q].type = "", ![q].runningSync = 0]
              /\ UNCHANGED << run, pre >>
         ELSE IF syncType \notin {"full", "incremental"}
         THEN /\ trigger' = [trigger EXCEPT ![q].pc = "done", ![q].status = 400,
                                            ![q].type = ""]
              /\ UNCHANGED << run, pre >>
         ELSE \E r \in Runs :
                /\ BeginRun(r, syncType)
                /\ trigger' = [trigger EXCEPT ![q].pc = "done", ![q].status = 200,
                                              ![q].type = "",
                                              ![q].ackType = syncType,
                                              ![q].startedAt = clock, ![q].run = r]
      /\ UNCHANGED << up, dataVars, syncLog, clock, faults, serverKey, clientVars, listVars, statusVars >>

\* the handler goes on after the query: conflict, bad type, or the
\* acknowledgement followed by runSync() (fire and forget)
TriggerRespond(q) ==
  LET t == trigger[q]
      syncType == SyncTypeOf(t.type)
  IN  /\ t.pc = "respond"
      /\ IF t.runningSync # 0
         THEN /\ trigger' = [trigger EXCEPT ![q].pc = "done", ![q].status = 409,
                                            ![q].type = "", ![q].runningSync = 0]
              /\ UNCHANGED << run, pre >>
         ELSE IF syncType \notin {"full", "incremental"}
         THEN /\ trigger' = [trigger EXCEPT ![q].pc = "done", ![q].status = 400,
                                            ![q].type = ""]
              /\ UNCHANGED << run, pre >>
         ELSE \E r \in Runs :
                /\ BeginRun(r, syncType)
                /\ trigger' = [trigger EXCEPT ![q].pc = "done", ![q].status = 200,
                                              ![q].type = "",
                                              ![q].ackType = syncType,
                                              ![q].startedAt = clock, ![q].run = r]
      /\ UNCHANGED << up, dataVars, syncLog, clock, faults, serverKey, clientVars, listVars, statusVars >>

ApiKeys == {"", "wrong", "secret"}
QueryTypes == {"", "full", "incremental", "bogus"}

\* a step of a started run in which nothing rejects
RunStep(r) ==
  \/ CreateLog(r)
  \/ UpsertSession(r)
  \/ FetchBills(r)
  \/ FindBill(r)
  \/ UpsertBill(r)
  \/ GetStages(r)
  \/ UpsertStage(r)
  \/ UpsertSitting(r)
  \/ GetAmendments(r)
  \/ UpsertAmendment(r)
  \/ ClearSponsors(r)
  \/ UpsertMember(r)
  \/ CreateSponsor(r)
  \/ GetMember(r)
  \/ UpdateMember(r)
  \/ Complete(r)

\* a step of a started run in which the awaited operation rejects, and the
\* outer catch's write that follows a rejection nothing caught
RunFault(r) ==
  \/ MarkFailed(r)
  \/ BillThrows(r)
  \/ FetchBillsThrows(r)
  \/ FatalThrows(r)
  \/ BillListMalformed(r)
  \/ GetMemberFails(r)
  \/ UpdateMemberThrows(r)
  \/ MarkFailedThrows(r)

\* the sync entry points run one after another (the CLI / cron scripts)
Next ==
  \/ \E r \in Runs, type \in {"full", "incremental"} : NoActiveRun /\ StartRun(r, type)
  \/ \E r \in Runs : RunStep(r)
  \/ \E r \in Runs : RunFault(r)
  \/ UpstreamChange

Spec == Init /\ [][Next]_vars

\* the server: trigger requests arrive at any time, and the runs their
\* handlers start interleave at their awaits
InitServer ==
  /\ up \in ServerVersions
  /\ sessionT = EmptyTable /\ billT = EmptyTable /\ stageT = EmptyTable
  /\ sittingT = EmptyTable /\ amendT = EmptyTable /\ memberT = EmptyTable
  /\ sponsorT = <<>>
  /\ syncLog = <<>>
  /\ run = [r \in Runs |-> IdleRun]
  /\ clock = 1
  /\ faults = 0
  /\ pre = Data
  /\ serverKey \in {"", "secret"}
  /\ call = IdleCall
  /\ listing = NoListing
  /\ statusReply = NoReply
  /\ trigger = [q \in Triggers |-> NewTrigger]

NextServer ==
  \/ \E q \in Triggers, apiKey \in ApiKeys, type \in QueryTypes :
       TriggerArrives(q, apiKey, type)
  \/ \E q \in Triggers : TriggerFindRunning(q)
  \/ \E q \in Triggers : TriggerRespond(q)
  \/ \E r \in Runs : RunStep(r)

ServerSpec == InitServer /\ [][NextServer]_vars

(* ====================================================================== *)
(* Properties of the server (ServerSpec)                                   *)
(* ====================================================================== *)

(* C2: at most one SyncLog row has status `running`, however the syncs are  *)
(* started.                                                                 *)
C2_AtMostOneRunning ==
  Cardinality({i \in DOMAIN syncLog : syncLog[i].status = "running"}) <= 1

(* ====================================================================== *)
(* Properties of the sync runs started one after another (Spec)            *)
(* ====================================================================== *)

\* the run started last
Latest(r) == run[r].pc # "idle" /\ \A q \in Runs : q > r => run[q].pc = "idle"

\* the stored sponsor rows of an amendment, in insertion order
SponsorsOf(t, amendmentId) == SelectSeq(t, LAMBDA row : row.amendmentId = amendmentId)

(* C1: session monotonicity.  In every step the stored session id of every  *)
(* stored bill is kept or raised, never lowered, and a bill upsert whose    *)
(* computed session id is lower than or equal to the stored one leaves the  *)
(* stored session id as it was.                                             *)
C1_SessionMonotonic ==
  [][ /\ \A b \in DOMAIN billT :
           b \in DOMAIN billT' /\ billT'[b].sessionId >= billT[b].sessionId
      /\ \A r \in Runs :
           (run[r].pc = "upsertBill" /\ run'[r].pc = "getStages"
              /\ CurBill(run[r]).billId \in DOMAIN billT
              /\ (IF CurBill(run[r]).includedSessionIds # <<>>
                  THEN Max(Range(CurBill(run[r]).includedSessionIds))
                  ELSE CurSession(run[r]).id) <= billT[CurBill(run[r]).billId].sessionId)
           => billT'[CurBill(run[r]).billId].sessionId
                = billT[CurBill(run[r]).billId].sessionId ]_vars

\* a bill has just been upserted whose computed session id is lower than the
\* stored one (bill 1 listed under 39, then under 38 with no included list)
C1_Witness ==
  \E r \in Runs :
    /\ run[r].pc = "getStages"
    /\ CurBill(run[r]).includedSessionIds = <<>>
    /\ CurSession(run[r]).id < billT[CurBill(run[r]).billId].sessionId

(* ---------------------------------------------------------------------- *)
\* what a fully reconciled upstream bill looks like in the store
SponsorRowsMatch(t, amendment) ==
  LET rows == SponsorsOf(t, amendment.amendmentId)
  IN  /\ Len(rows) = Len(amendment.sponsors)
      /\ \A i \in DOMAIN rows :
           /\ rows[i].memberId = amendment.sponsors[i].memberId
           /\ rows[i].sortOrder = amendment.sponsors[i].sortOrder

FullyReconciled(v, bill) ==
  /\ bill.billId \in DOMAIN billT
  /\ billT[bill.billId].rev = bill.rev
  /\ \A i \in DOMAIN UpStages(v, bill.billId) :
       LET stage == UpStages(v, bill.billId)[i]
       IN  /\ stage.id \in DOMAIN stageT
           /\ stageT[stage.id] = [billId |-> bill.billId, rev |-> stage.rev]
           /\ \A j \in DOMAIN UpAmendments(v, stage.id) :
                LET amendment == UpAmendments(v, stage.id)[j]
                IN  /\ amendment.amendmentId \in DOMAIN amendT
                    /\ amendT[amendment.amendmentId].rev = amendment.rev
                    /\ amendT[amendment.amendmentId].billStageId = stage.id
                    /\ SponsorRowsMatch(sponsorT, amendment)

\* the bills a run of the given type reconciles: every listed bill (full),
\* the listed bills that are not withdrawn, defeated or an act (incremental)
Inactive(bill) == bill.billWithdrawn \/ bill.isDefeated \/ bill.isAct
Listed(v) == UNION { Range(UpBills(v, getSessions[i].id)) : i \in DOMAIN getSessions }
InScope(type, bill) == type = "full" \/ ~Inactive(bill)

(* C6: partial failure isolation.  When the only failures of a finished run *)
(* are throws inside the reconciliation of bills, the run's log row is      *)
(* `completed`, its error list has exactly one entry per throw, naming the  *)
(* bill that threw, and every other bill the run had to reconcile is fully  *)
(* reconciled (bill, stages, amendments, sponsors).                         *)
C6_PartialFailureIsolation ==
  \A r \in Runs :
    (/\ run[r].pc = "done" /\ Latest(r)
     /\ run[r].thrown # <<>>
     /\ \A i \in DOMAIN run[r].thrown : run[r].thrown[i].at \in BillPcs)
    => /\ syncLog[run[r].logId].status = "completed"
       /\ Len(run[r].stats.errors) = Len(run[r].thrown)
       /\ \A i \in DOMAIN run[r].thrown :
            /\ run[r].stats.errors[i].kind = "bill"
            /\ run[r].stats.errors[i].id = run[r].thrown[i].id
       /\ syncLog[run[r].logId].stats = << run[r].stats >>
       /\ \A bill \in Listed(run[r].world) :
            (InScope(run[r].type, bill)
               /\ \A i \in DOMAIN run[r].thrown : run[r].thrown[i].id # bill.billId)
            => FullyReconciled(run[r].world, bill)

\* a run in which the stage fetch of bill 2 threw has finished, and bill 1
\* (with its amendment and sponsors) was reconciled by it
C6_Witness ==
  \E r \in Runs :
    /\ run[r].pc = "done" /\ Latest(r)
    /\ run[r].thrown = << [at |-> "getStages", id |-> 2] >>
    /\ syncLog[run[r].logId].status = "completed"
    /\ 101 \in DOMAIN amendT
    /\ pre.bills = EmptyTable

(* C7: sponsor replacement.  Whenever a run finishes the reconciliation of  *)
(* an amendment without a throw, the stored sponsor rows of that amendment  *)
(* are exactly one row per sponsor of the payload (member id and sort order *)
(* as in the payload, in the payload's order), whatever rows it had before. *)
C7_SponsorReplacement ==
  [][ \A r \in Runs :
        (/\ run[r].pc \in {"deleteSponsors", "createSponsor"}
         /\ run'[r].pc \notin {"deleteSponsors", "createSponsor", "upsertMember"}
         /\ run'[r].thrown = run[r].thrown)
        => SponsorRowsMatch(sponsorT', CurAmendment(run[r])) ]_vars

\* amendment 101 had the sponsor rows {10, 11} when the run started and the
\* run, given the payload [11], has left exactly the row of member 11
C7_Witness ==
  \E r \in Runs :
    /\ run[r].pc = "done" /\ Latest(r)
    /\ {row.memberId : row \in Range(SponsorsOf(pre.sponsors, 101))} = {10, 11}
    /\ SponsorsOf(sponsorT, 101)
         = << [amendmentId |-> 101, memberId |-> 11, isLead |-> TRUE, sortOrder |-> 0] >>

(* C8: idempotent re-sync.  When two runs of the same variant are executed  *)
(* one after the other against the same upstream contents and neither       *)
(* meets a failure, every data table has the same rows with the same        *)
(* content after the second run as after the first.                         *)
C8_IdempotentResync ==
  \A r \in Runs :
    (/\ r > 1 /\ run[r].pc = "done" /\ Latest(r)
     /\ run[r].type = run[r - 1].type
     /\ run[r].world = run[r - 1].world
     /\ run[r].thrown = <<>> /\ run[r - 1].thrown = <<>>)
    => Data = pre

\* two full runs against the upstream with two sponsors have finished
C8_Witness ==
  \E r \in Runs :
    /\ r > 1 /\ run[r].pc = "done"
    /\ run[r].type = "full" /\ run[r - 1].type = "full"
    /\ run[r].world = 1 /\ run[r - 1].world = 1
    /\ run[r].thrown = <<>> /\ run[r - 1].thrown = <<>>
    /\ Len(sponsorT) = 2 /\ DOMAIN stageT = {11}

(* ---------------------------------------------------------------------- *)
\* the stored rows that belong to a bill: its row, its stages, their
\* amendments and those amendments' sponsors
RowsOfBill(d, b) ==
  LET stageIds == {st \in DOMAIN d.stages : d.stages[st].billId = b}
      amendIds == {a \in DOMAIN d.amendments : d.amendments[a].billStageId \in stageIds}
  IN  [ bill |-> IF b \in DOMAIN d.bills THEN <<d.bills[b]>> ELSE <<>>,
        stages |-> [st \in stageIds |-> d.stages[st]],
        amendments |-> [a \in amendIds |-> d.amendments[a]],
        sponsors |-> SelectSeq(d.sponsors, LAMBDA row : row.amendmentId \in amendIds) ]

\* the number of entries of a sequence that satisfy Test
CountIf(seq, Test(_)) == Cardinality({i \in DOMAIN seq : Test(seq[i])})

NotInactive(bill) == ~Inactive(bill)

(* C9: incremental filtering.  An incremental run reconciles only listed    *)
(* bills that are not withdrawn, not defeated and not an act; while it is   *)
(* the latest run no stored row of a bill it skips differs from what it was *)
(* when the run started; and a run that finished without a failure has      *)
(* counted exactly the listed inactive bills as skipped and upserted        *)
(* exactly the listed active ones.                                          *)
C9_IncrementalFiltering ==
  \A r \in Runs :
    (run[r].type = "incremental" /\ Latest(r))
    => /\ run[r].pc \in BillPcs => ~Inactive(CurBill(run[r]))
       /\ \A bill \in Listed(run[r].world) :
            Inactive(bill) => RowsOfBill(Data, bill.billId) = RowsOfBill(pre, bill.billId)
       /\ (run[r].pc = "done" /\ run[r].thrown = <<>>)
          => /\ run[r].stats.billsSkipped
                  = CountIf(UpBills(run[r].world, 39), Inactive)
                    + CountIf(UpBills(run[r].world, 38), Inactive)
                    + CountIf(UpBills(run[r].world, 37), Inactive)
             /\ run[r].stats.billsProcessed
                  = CountIf(UpBills(run[r].world, 39), NotInactive)
                    + CountIf(UpBills(run[r].world, 38), NotInactive)
                    + CountIf(UpBills(run[r].world, 37), NotInactive)

\* an incremental run over {1 active, 2 withdrawn, 3 defeated, 4 act} has
\* finished with 3 skipped, after a full run had stored the skipped bills
C9_Witness ==
  \E r \in Runs :
    /\ run[r].type = "incremental" /\ run[r].pc = "done" /\ Latest(r)
    /\ run[r].world = 2 /\ run[r].thrown = <<>>
    /\ run[r].stats.billsSkipped = 3
    /\ {2, 3, 4} \subseteq DOMAIN pre.bills
    /\ billT[1].rev = 2

(* ---------------------------------------------------------------------- *)
Terminal(row) == row.status \in {"completed", "failed"}

MAX_RETRIES == 5
INITIAL_BACKOFF_MS == 1000

syncVars == << up, dataVars, syncLog, run, clock, faults, pre, routeVars >>

\* the URLs the model calls and the payloads the upstream can serve
Urls == {"/Bills?Session=39", "/Members/10"}
Payloads == {1, 2}
HttpErrors == {404, 500}

\* faulty variant: one more retry is allowed
exhausted_Late(retries) == retries > MAX_RETRIES
\* retries >= MAX_RETRIES: the test of both the 429 branch and the catch
exhausted(retries) == retries >= MAX_RETRIES

\* faulty variant: the wait grows linearly
backoffMs_Linear(retries) == INITIAL_BACKOFF_MS * (retries + 1)
\* INITIAL_BACKOFF_MS * Math.pow(2, retries)
backoffMs(retries) == INITIAL_BACKOFF_MS * 2^retries

\* new Error(`Rate limited after ${MAX_RETRIES} retries: ${url}`)
RateLimitedError(url) == [kind |-> "RateLimited", after |-> MAX_RETRIES, url |-> url]

\* new Error(`HTTP ${response.status}: ... for ${url}`)
HttpError(status, url) == [kind |-> "Http", status |-> status, url |-> url]

\* the request of the current activation has been answered with `kind`,
\* response.status being `status` (0: there was no response)
Answered(kind, status) ==
  [call EXCEPT !.requests = @ + 1, !.status = status,
               !.responses = Append(@, kind)]

\* await sleep(backoffMs), the call's next step being the recursive call
Backoff(c) ==
  [c EXCEPT !.pc = "sleep", !.sleeps = Append(@, backoffMs(c.retries))]

\* the promise of the outermost call rejects with `error`
Throw(c, error) == [c EXCEPT !.pc = "threw", !.error = error]

\* fetchWithRetry(url): retries defaults to 0
CallStart(url) ==
  /\ call.pc = "idle"
  /\ call' = [IdleCall EXCEPT !.pc = "fetch", !.url = url]
  /\ UNCHANGED << syncVars, listVars, statusVars >>

\* response.status === 429.  The error thrown when the retries are used up
\* is caught by the function's own catch, which rethrows it.
Fetch429 ==
  /\ call.pc = "fetch"
  /\ call' = IF exhausted(call.retries)
             THEN Throw(Answered("429", 429), RateLimitedError(call.url))
             ELSE Backoff(Answered("429", 429))
  /\ UNCHANGED << syncVars, listVars, statusVars >>

\* the timer fires: return fetchWithRetry(url, retries + 1)
WakeUp ==
  /\ call.pc = "sleep"
  /\ call' = [call EXCEPT !.pc = "fetch", !.retries = @ + 1]
  /\ UNCHANGED << syncVars, listVars, statusVars >>

\* a 2xx response whose body parses: return await response.json()
FetchOk(payload) ==
  /\ call.pc = "fetch"
  /\ call' = [Answered("ok", 200) EXCEPT !.pc = "returned", !.served = payload,
                                    !.result = payload]
  /\ UNCHANGED << syncVars, listVars, statusVars >>

\* faulty variant: a failing status is retried like a network error
FetchHttpError_Retried(status) ==
  /\ call.pc = "fetch"
  /\ call' = IF exhausted(call.retries)
             THEN Throw(Answered("http", status), HttpError(status, call.url))
             ELSE Backoff(Answered("http", status))
  /\ UNCHANGED << syncVars, listVars, statusVars >>

\* !response.ok: the error is not a TypeError, the catch rethrows it
FetchHttpError(status) ==
  /\ call.pc = "fetch"
  /\ call' = Throw(Answered("http", status), HttpError(status, call.url))
  /\ UNCHANGED << syncVars, listVars, statusVars >>

\* faulty variant: network failures are counted apart from the 429s
FetchNetworkError_OwnCounter ==
  LET failures == Cardinality({i \in DOMAIN call.responses :
                                 call.responses[i] = "network"})
  IN  /\ call.pc = "fetch"
      /\ call' = IF exhausted(failures)
                 THEN Throw(Answered("network", 0), [kind |-> "Network"])
                 ELSE [Answered("network", 0) EXCEPT
                         !.pc = "sleep", !.sleeps = Append(@, backoffMs(failures))]
      /\ UNCHANGED << syncVars, listVars, statusVars >>

\* faulty variant: a network error is rethrown at once
FetchNetworkError_NoRetry ==
  /\ call.pc = "fetch"
  /\ call' = Throw(Answered("network", 0), [kind |-> "Network"])
  /\ UNCHANGED << syncVars, listVars, statusVars >>

\* fetch() rejects with TypeError('fetch failed'): retried with backoff
\* until the retries are used up
FetchNetworkError ==
  /\ call.pc = "fetch"
  /\ call' = IF exhausted(call.retries)
             THEN Throw(Answered("network", 0), [kind |-> "Network"])
             ELSE Backoff(Answered("network", 0))
  /\ UNCHANGED << syncVars, listVars, statusVars >>

\* a 2xx response whose body does not parse: response.json() rejects with a
\* SyntaxError, which the catch rethrows
FetchBadJson ==
  /\ call.pc = "fetch"
  /\ call' = Throw(Answered("ok", 200), [kind |-> "Syntax"])
  /\ UNCHANGED << syncVars, listVars, statusVars >>

InitClient == Init /\ up = 1

NextClient ==
  \/ \E url \in Urls : CallStart(url)
  \/ Fetch429
  \/ WakeUp
  \/ \E payload \in Payloads : FetchOk(payload)
  \/ \E status \in HttpErrors : FetchHttpError(status)
  \/ FetchNetworkError
  \/ FetchBadJson

ClientSpec == InitClient /\ [][NextClient]_vars

(* ====================================================================== *)
(* Properties of the fetch client (ClientSpec)                             *)
(* ====================================================================== *)

Only429 == \A i \in DOMAIN call.responses : call.responses[i] = "429"

(* C4: a call whose every response is 429 fails after exactly 5 retries,   *)
(* that is 6 requests: it never ends before the sixth 429, it never sends   *)
(* a seventh request, and the sixth 429 ends it with the rate-limit error   *)
(* that carries the call's URL.                                             *)
C4_RetryExhaustion ==
  Only429 =>
    /\ call.requests <= 6
    /\ call.requests < 6 => call.pc \notin {"returned", "threw"}
    /\ call.requests = 6 =>
         /\ call.pc = "threw"
         /\ call.error.kind = "RateLimited"
         /\ call.error.url = call.url
         /\ call.error.after = 5
         /\ Len(call.sleeps) = 5

C4_Witness ==
  /\ Only429
  /\ call.requests = 6
  /\ call.pc = "threw"

(* C5: the wait before the re-issue that follows a 429 received at retry    *)
(* count k is 1000 * 2^k ms, every re-issue is preceded by its wait, and a  *)
(* call answered 429 n <= 5 times and then 2xx returns the payload served.  *)
C5_BackoffSchedule ==
  LET schedule == << 1000, 2000, 4000, 8000, 16000 >>
      n == Len(call.responses)
  IN  /\ Len(call.sleeps) <= 5
      /\ \A k \in DOMAIN call.sleeps :
           call.responses[k] = "429" => call.sleeps[k] = schedule[k]
      /\ call.pc = "fetch" => Len(call.sleeps) = call.requests
      /\ ( /\ n >= 1
           /\ call.responses[n] = "ok"
           /\ call.error.kind = "none"
           /\ \A i \in 1..(n - 1) : call.responses[i] = "429" )
         => /\ call.pc = "returned"
            /\ n - 1 <= 5
            /\ call.result = call.served
            /\ call.result \in Payloads

C5_Witness ==
  /\ call.pc = "returned"
  /\ call.responses = << "429", "429", "429", "429", "429", "ok" >>
  /\ call.sleeps = << 1000, 2000, 4000, 8000, 16000 >>
  /\ call.result = call.served

(* ====================================================================== *)
(* Failure handling of the sync runs (Spec)                                *)
(* ====================================================================== *)

\* the places where a rejection is caught by no inner catch: the session
\* upsert, the bill loop outside processBill, the completing write
FatalPlaces == {"upsertSession", "billLoop", "complete"}

\* the last exception a run has met
LastThrown(rr) == rr.thrown[Len(rr.thrown)]

\* the run's own SyncLog row
LogRow(rr) == syncLog[rr.logId]

(* C11 as stated: whenever an exception has escaped to the outer catch and  *)
(* the run has ended, its row is `failed` and the exception raised to the   *)
(* caller is the one that escaped.                                          *)
C11_AlwaysMarkedFailed ==
  \A r \in Runs :
    (run[r].pc = "done" /\ run[r].outcome = "threw")
    => /\ LogRow(run[r]).status = "failed"
       /\ run[r].raised = run[r].error

(* C11 (amended): an exception that escapes the session upsert, the bill    *)
(* loop or the completing write enters the outer catch with the statistics  *)
(* untouched; the catch's write, when it succeeds, sets the row to `failed` *)
(* with a completion time, the exception text and the statistics reached,   *)
(* and the same exception is raised to the caller; when that write itself   *)
(* rejects, the row stays `running` and the write's exception is raised.    *)
C11_FailedOnEscape ==
  /\ [][ \A r \in Runs :
           /\ (run[r].pc # "fail" /\ run'[r].pc = "fail")
              => /\ LastThrown(run'[r]).at \in FatalPlaces
                 /\ run'[r].error = LastThrown(run'[r]).at
                 /\ run'[r].stats = run[r].stats
                 /\ syncLog' = syncLog
           /\ (run[r].pc = "fail" /\ run'[r].pc = "done")
              => /\ run'[r].outcome = "threw"
                 /\ \/ /\ LogRow(run[r])' = [ LogRow(run[r]) EXCEPT
                                                !.status = "failed",
                                                !.completedAt = clock,
                                                !.error = << run[r].error >>,
                                                !.stats = << run[r].stats >> ]
                       /\ clock > 0
                       /\ run'[r].raised = run[r].error
                    \/ /\ syncLog' = syncLog
                       /\ LogRow(run[r]).status = "running"
                       /\ LastThrown(run'[r]).at = "fail"
                       /\ run'[r].raised = "fail" ]_vars
  /\ [](\A r \in Runs :
          (run[r].pc = "done" /\ run[r].outcome = "threw")
          => \/ LogRow(run[r]).status = "failed" /\ run[r].raised = run[r].error
             \/ LogRow(run[r]).status = "running" /\ LastThrown(run[r]).at = "fail")

\* a run in which the third session upsert rejected has ended: its row is
\* `failed` and carries the statistics of the two sessions already upserted
C11_Witness ==
  \E r \in Runs :
    /\ run[r].pc = "done" /\ run[r].outcome = "threw"
    /\ run[r].raised = "upsertSession"
    /\ LogRow(run[r]).status = "failed"
    /\ LogRow(run[r]).error = << "upsertSession" >>
    /\ LogRow(run[r]).stats = << run[r].stats >>
    /\ run[r].stats.sessionsProcessed = 2

(* ====================================================================== *)
(* The trigger route (ServerSpec)                                          *)
(* ====================================================================== *)

SomeRunning == \E i \in DOMAIN syncLog : syncLog[i].status = "running"

\* the runs that leave `idle` in a step
Started == {r \in Runs : run[r].pc = "idle" /\ run'[r].pc # "idle"}

(* C12 as stated: every authenticated call whose check finds no running    *)
(* row is acknowledged.                                                     *)
C12_AcknowledgedWhenNoneRunning ==
  [][ \A q \in Triggers :
        (trigger[q].pc = "respond" /\ trigger'[q].pc = "done"
           /\ trigger[q].runningSync = 0)
        => trigger'[q].status = 200 ]_vars

(* C12 (amended): the check of an authenticated call finds a row exactly    *)
(* when some SyncLog row is `running`; a call whose check found one is      *)
(* answered 409, starts no run and writes no SyncLog row; a call whose      *)
(* check found none and whose type is full, incremental or absent is        *)
(* acknowledged with that type (incremental when absent) and the time of    *)
(* the acknowledgement, and starts exactly one run, of that type; a call    *)
(* whose check found none and whose type is anything else is answered 400   *)
(* and starts no run.                                                       *)
C12_TriggerConflict ==
  [][ \A q \in Triggers :
        /\ (trigger[q].pc = "findRunning" /\ trigger'[q].pc = "respond")
           => /\ (trigger'[q].runningSync # 0) <=> SomeRunning
              /\ trigger'[q].runningSync # 0
                 => syncLog[trigger'[q].runningSync].status = "running"
        /\ (trigger[q].pc = "respond" /\ trigger'[q].pc = "done")
           => /\ syncLog' = syncLog
              /\ IF trigger[q].runningSync # 0
                 THEN /\ trigger'[q].status = 409
                      /\ run' = run
                 ELSE IF trigger[q].type \in {"", "full", "incremental"}
                 THEN /\ trigger'[q].status = 200
                      /\ trigger'[q].ackType
                           = (IF trigger[q].type = "full" THEN "full" ELSE "incremental")
                      /\ trigger'[q].startedAt = clock /\ clock > 0
                      /\ Started = { trigger'[q].run }
                      /\ run'[trigger'[q].run].type = trigger'[q].ackType
                      /\ \A r \in Runs \ Started : run'[r] = run[r]
                 ELSE /\ trigger'[q].status = 400
                      /\ run' = run ]_vars

\* one call was acknowledged and its run has created its row; a later call
\* found that row and was answered 409
C12_Witness ==
  \E p, q \in Triggers :
    /\ trigger[p].status = 200 /\ run[trigger[p].run].logId # 0
    /\ trigger[q].status = 409
    /\ Len(syncLog) = 1

(* ====================================================================== *)
(* Failures of the fetch client (ClientSpec)                               *)
(* ====================================================================== *)

\* the kind of the response answered last ("" before the first)
LastResponse ==
  IF call.responses = <<>> THEN "" ELSE call.responses[Len(call.responses)]

(* C13: a response whose status is neither 2xx nor 429 ends the call at     *)
(* once with an error that carries that status and the call's URL: no wait  *)
(* follows it and no request is sent after it, at any retry count.          *)
C13_HttpErrorFailsAtOnce ==
  /\ LastResponse = "http"
     => /\ call.pc = "threw"
        /\ call.error = [kind |-> "Http", status |-> call.status, url |-> call.url]
        /\ call.status \notin {200, 429}
        /\ Len(call.sleeps) = Len(call.responses) - 1
        /\ call.requests = Len(call.responses)
        /\ call.retries = Len(call.responses) - 1
  /\ \A i \in DOMAIN call.responses :
       call.responses[i] = "http" => i = Len(call.responses)

\* status 500 arrived at retry count 5, after five waits
C13_Witness ==
  /\ call.responses = << "429", "429", "429", "429", "429", "http" >>
  /\ call.pc = "threw"
  /\ call.error.kind = "Http" /\ call.error.status = 500
  /\ Len(call.sleeps) = 5

(* C14: a request that fails at the network level (fetch() rejects) is      *)
(* retried on the schedule of a 429: the wait at retry count k is           *)
(* 1000 * 2^k ms and there are at most 5 retries; the failure that arrives  *)
(* at retry count 5 ends the call with the network error, which is not the  *)
(* rate-limit error.                                                        *)
C14_NetworkErrorRetried ==
  LET schedule == << 1000, 2000, 4000, 8000, 16000 >>
      n == Len(call.responses)
  IN  /\ \A k \in DOMAIN call.sleeps :
           call.responses[k] = "network" => call.sleeps[k] = schedule[k]
      /\ call.requests <= 6
      /\ LastResponse = "network"
         => IF n <= 5
            THEN /\ call.pc \in {"sleep", "fetch"}
                 /\ Len(call.sleeps) = n
                 /\ call.error.kind = "none"
            ELSE /\ call.pc = "threw"
                 /\ call.error.kind = "Network"
                 /\ call.error # RateLimitedError(call.url)
                 /\ Len(call.sleeps) = 5

\* six network failures in a row: five waits, then the network error
C14_Witness ==
  /\ call.responses = << "network", "network", "network", "network", "network", "network" >>
  /\ call.sleeps = << 1000, 2000, 4000, 8000, 16000 >>
  /\ call.pc = "threw"
  /\ call.error.kind = "Network"

(* ====================================================================== *)
(* Member pass and bill scope of the sync runs (Spec)                      *)
(* ====================================================================== *)

MemberPcs == {"getMember", "updateMember"}

\* the member ids whose profile fetch or profile write failed in a run
FailedMembers(rr) ==
  {rr.thrown[i].id : i \in {j \in DOMAIN rr.thrown : rr.thrown[j].at \in MemberPcs}}

(* C15: member failure isolation.  A failing profile fetch or profile write *)
(* never raises out of the member pass: the run goes on with the next       *)
(* collected member (or the completing write), the Member table is left as  *)
(* it is and membersProcessed is not incremented.  A finished run whose     *)
(* only failures were member failures is `completed`, has no entry in its   *)
(* error list, has counted exactly the other collected members, and the     *)
(* failed member's row holds the values of this run's sponsor payload.      *)
C15_MemberFailureIsolation ==
  /\ [][ \A r \in Runs :
           (run[r].pc \in MemberPcs /\ Len(run'[r].thrown) > Len(run[r].thrown))
           => /\ run'[r].pc \in {"getMember", "complete"}
              /\ run'[r].pc = "getMember" => run'[r].mi = run[r].mi + 1
              /\ run'[r].pc = "complete" => run[r].mi = Len(run[r].memberIdsToFetch)
              /\ memberT' = memberT
              /\ run'[r].stats = run[r].stats ]_vars
  /\ [](\A r \in Runs :
          (/\ run[r].pc = "done" /\ Latest(r)
           /\ run[r].thrown # <<>>
           /\ \A i \in DOMAIN run[r].thrown : run[r].thrown[i].at \in MemberPcs)
          => /\ LogRow(run[r]).status = "completed"
             /\ run[r].outcome = "returned"
             /\ run[r].stats.errors = <<>>
             /\ run[r].stats.membersProcessed
                  = Len(run[r].memberIdsToFetch) - Cardinality(FailedMembers(run[r]))
             /\ \A i \in DOMAIN run[r].memberIdsToFetch :
                  LET m == run[r].memberIdsToFetch[i]
                  IN  /\ m \in DOMAIN memberT
                      /\ memberT[m].rev = run[r].world
                      /\ memberT[m].src
                           = (IF m \in FailedMembers(run[r]) THEN "sponsor" ELSE "profile"))

\* the profile fetch of member 10 failed, member 11 was updated from its
\* profile, and the run has completed
C15_Witness ==
  \E r \in Runs :
    /\ run[r].pc = "done" /\ Latest(r)
    /\ run[r].thrown = << [at |-> "getMember", id |-> 10] >>
    /\ run[r].memberIdsToFetch = << 10, 11 >>
    /\ memberT[10].src = "sponsor" /\ memberT[11].src = "profile"
    /\ run[r].stats.membersProcessed = 1
    /\ LogRow(run[r]).status = "completed"

(* ====================================================================== *)
(* The bill list of a session: getBillsForSession                          *)
(* ====================================================================== *)

\* getBillsForSession(sessionId, take = 400)
BillsTake == 400

\* the largest number of bills a session holds upstream
MaxHeld == 402

\* the numbers of bills the model lets a session hold
HeldCounts == (0..40) \cup (380..MaxHeld)

\* the bills (by id) of a session that holds n bills upstream
Held(n) == [i \in 1..n |-> i]

\* GET /Bills?Session=s&Take=take: the items of the first page (no Skip is
\* sent by the client)
FirstPage(held, take) ==
  SubSeq(held, 1, IF Len(held) < take THEN Len(held) ELSE take)

\* getBillsForSession: one request, response.items is the result
getBillsForSession(held) == FirstPage(held, BillsTake)

\* the sync asks for the bills of a session that holds n bills
ListBills(sessionId, n) ==
  /\ listing' = [ sessionId |-> sessionId, held |-> n,
                  bills |-> getBillsForSession(Held(n)) ]
  /\ UNCHANGED << syncVars, clientVars, statusVars >>

NextListing ==
  \E i \in DOMAIN getSessions, n \in HeldCounts : ListBills(getSessions[i].id, n)

ListingSpec == InitClient /\ [][NextListing]_vars

(* C16: every bill the upstream holds for a session is in the list the     *)
(* full sync iterates, however many bills the session holds.                *)
C16_EveryHeldBillListed ==
  \A b \in 1..listing.held : \E i \in DOMAIN listing.bills : listing.bills[i] = b

\* ---------------------------------------------------------------------------
\* Foreign keys of the stored tables

\* every stored child row names a stored parent
ForeignKeysHold ==
  /\ \A b \in DOMAIN billT : Has(sessionT, billT[b].sessionId)
  /\ \A s \in DOMAIN stageT : Has(billT, stageT[s].billId)
  /\ \A t \in DOMAIN sittingT : Has(stageT, sittingT[t].billStageId)
  /\ \A a \in DOMAIN amendT : Has(stageT, amendT[a].billStageId)
  /\ \A i \in DOMAIN sponsorT :
       /\ Has(amendT, sponsorT[i].amendmentId)
       /\ Has(memberT, sponsorT[i].memberId)

\* C17: in every state during or after any sequence of sync runs, failed runs
\* included, every Bill row's session is stored, every BillStage's bill, every
\* BillStageSitting's stage, every Amendment's stage and every
\* AmendmentSponsor's amendment and member are stored
C17_ForeignKeyConsistency == ForeignKeysHold

\* a run has failed after sponsor rows were written, and a bill write naming
\* an unlisted session has been turned away in some run
C17_Witness ==
  /\ \E r \in Runs :
       /\ run[r].pc = "done"
       /\ LogRow(run[r]).status = "failed"
  /\ Len(sponsorT) > 0
  /\ \E r \in Runs : \E i \in DOMAIN run[r].thrown :
       run[r].thrown[i].at = "upsertBill"

\* ---------------------------------------------------------------------------
\* Failures outside the per-bill loop

\* the places a run has met an exception at
ThrownAt(rr) == { rr.thrown[i].at : i \in DOMAIN rr.thrown }

(* C18 as stated: a run that met a failure in a session upsert, in fetching *)
(* a session's bill list or in the completing write has been aborted: it    *)
(* raised to its caller and its row is `failed`.                            *)
C18_ListFailureAborts ==
  \A r \in Runs :
    (/\ run[r].pc = "done"
     /\ ThrownAt(run[r]) \cap {"upsertSession", "fetchBills", "complete"} # {})
    => /\ run[r].outcome = "threw"
       /\ LogRow(run[r]).status = "failed"

(* C18 (amended): a failure in a session upsert or in the completing write  *)
(* of the sync log aborts the whole run and is raised to the caller, and    *)
(* the row is left `failed` unless the write that marks it failed itself    *)
(* rejects; a failure in fetching the bill list of a session does not abort *)
(* the run: it is recorded in the run's error list and the run goes on with *)
(* the next session.                                                        *)
C18_FatalOutsideBillLoop ==
  /\ [][ \A r \in Runs :
           Len(run'[r].thrown) = Len(run[r].thrown) + 1
           => LET e == LastThrown(run'[r])
              IN  /\ e.at \in {"upsertSession", "complete"}
                     => /\ run'[r].pc = "fail"
                        /\ run'[r].error = e.at
                  /\ e.at = "fetchBills"
                     => /\ run'[r].pc \notin {"fail", "done"}
                        /\ run'[r].outcome = "none"
                        /\ run'[r].stats.errors =
                             Append(run[r].stats.errors,
                                    [kind |-> "session", id |-> e.id,
                                     error |-> "fetchBills"])
                        /\ IF run[r].si < Len(getSessions)
                           THEN /\ run'[r].pc = "fetchBills"
                                /\ run'[r].si = run[r].si + 1
                           ELSE run'[r].pc \in {"getMember", "complete"}
                        /\ syncLog' = syncLog ]_vars
  /\ [](\A r \in Runs :
          run[r].pc = "done"
          => /\ ThrownAt(run[r]) \cap {"upsertSession", "complete"} # {}
                => /\ run[r].outcome = "threw"
                   /\ \/ LogRow(run[r]).status = "failed"
                      \/ /\ LogRow(run[r]).status = "running"
                         /\ LastThrown(run[r]).at = "fail"
             /\ ThrownAt(run[r]) \cap (FatalPlaces \cup {"fail"}) = {}
                => /\ run[r].outcome = "returned"
                   /\ LogRow(run[r]).status = "completed")

\* a run whose bill-list fetch failed for one session has returned to its
\* caller with a `completed` row that lists the failure among its errors
C18_Witness ==
  \E r \in Runs :
    /\ run[r].pc = "done"
    /\ run[r].outcome = "returned"
    /\ "fetchBills" \in ThrownAt(run[r])
    /\ LogRow(run[r]).status = "completed"
    /\ \E i \in DOMAIN run[r].stats.errors : run[r].stats.errors[i].kind = "session"

\* ---------------------------------------------------------------------------
\* Termination: a sync run, and one upstream request followed on its own,
\* under the assumption that awaited operations settle

\* the pending request of the call is answered, or fails to connect
ClientResponds ==
  \/ Fetch429
  \/ \E payload \in Payloads : FetchOk(payload)
  \/ \E status \in HttpErrors : FetchHttpError(status)
  \/ FetchNetworkError
  \/ FetchBadJson

\* the step that follows the operation a started run awaits: the operation
\* returns, or the outer catch's write settles either way
RunProceeds(r) == RunStep(r) \/ MarkFailed(r) \/ MarkFailedThrows(r)

\* either sync runs are followed, or one request through fetchWithRetry
NextTermination ==
  \/ call.pc = "idle" /\ Next
  \/ syncLog = <<>> /\ NoActiveRun /\ NextClient

\* every awaited store operation and upstream request settles, and every
\* backoff timer fires
TerminationSpec ==
  /\ Init
  /\ [][NextTermination]_vars
  /\ \A r \in Runs : WF_vars(RunProceeds(r))
  /\ WF_vars(ClientResponds)
  /\ WF_vars(WakeUp)

AllActive(v) == \A bill \in Listed(v) : ~Inactive(bill)

(* C20: for an upstream in which every listed bill is active, every         *)
(* Amendment row an incremental run writes is, in every stored column, the  *)
(* row a full run writes for the same amendment from the same store state.  *)
C20_SameAmendmentRows ==
  [][ \A r \in Runs :
        (/\ run[r].type = "incremental"
         /\ AllActive(run[r].world)
         /\ run[r].pc = "upsertAmendment"
         /\ run'[r].pc = "deleteSponsors")
        => amendT' = Put(amendT, CurAmendment(run[r]).amendmentId,
                         AmendmentRow(amendT, CurAmendment(run[r]),
                                      CurStage(run[r]).id, "full")) ]_vars

\* ---------------------------------------------------------------------------
\* Stage sittings

(* C21: a step of an incremental run leaves the BillStageSitting table      *)
(* unchanged; the table changes only in the sitting upsert of a full run,   *)
(* which puts the row of the sitting's id with the payload's date (0, the   *)
(* null date, stays 0), and no sitting row is ever removed.                 *)
C21_SittingsOnlyInFullSync ==
  [][ /\ \A r \in Runs :
           (run[r].type = "incremental" /\ run'[r] # run[r])
           => sittingT' = sittingT
      /\ sittingT' # sittingT
         => \E r \in Runs :
              /\ run[r].type = "full"
              /\ run[r].pc = "upsertSitting"
              /\ LET sitting == CurSitting(run[r])
                 IN  sittingT' =
                       Put(sittingT, sitting.id,
                           [ billStageId |-> CurStage(run[r]).id,
                             billId |-> CurBill(run[r]).billId,
                             date |-> sitting.date ])
      /\ DOMAIN sittingT \subseteq DOMAIN sittingT' ]_vars

\* an incremental run has reconciled a stage whose sitting the store holds
\* with another date than the upstream's, and the stored date is still null
C21_Witness ==
  \E r \in Runs :
    /\ run[r].type = "incremental"
    /\ run[r].pc = "done"
    /\ run[r].stats.stagesProcessed > 0
    /\ Has(sittingT, 111)
    /\ sittingT[111].date = 0
    /\ UpStages(run[r].world, 1)[1].stageSittings[1].date # 0

\* ---------------------------------------------------------------------------
\* The session id of a reconciled bill

\* the greatest included session of the bill in hand when the payload lists
\* any, and otherwise the session whose bill list is iterated
AuthoritativeSession(rr) ==
  LET ids == Range(CurBill(rr).includedSessionIds)
  IN  IF ids # {}
      THEN CHOOSE m \in ids : \A x \in ids : x <= m
      ELSE CurSession(rr).id

(* C22: the bill upsert of a run leaves the bill's row; a bill that had no  *)
(* stored row is created with the maximum of its included-session-ids list *)
(* when that list is non-empty and otherwise with the id of the session     *)
(* being iterated, and a stored row keeps its session id or takes that one. *)
C22_AuthoritativeSessionId ==
  [][ \A r \in Runs :
        (run[r].pc = "upsertBill" /\ run'[r].pc = "getStages")
        => LET id == CurBill(run[r]).billId
           IN  /\ Has(billT', id)
               /\ ~Has(billT, id)
                  => billT'[id].sessionId = AuthoritativeSession(run[r])
               /\ Has(billT, id)
                  => billT'[id].sessionId \in
                       {billT[id].sessionId, AuthoritativeSession(run[r])} ]_vars

\* bill 1, listed under session 38 with included sessions 38 and 39, had no
\* stored row and has been created with session 39
C22_Witness ==
  \E r \in Runs :
    /\ run[r].pc = "getStages"
    /\ ~run[r].existingBill.found
    /\ CurSession(run[r]).id = 38
    /\ CurBill(run[r]).includedSessionIds = <<38, 39>>
    /\ billT[CurBill(run[r]).billId].sessionId = 39

\* ---------------------------------------------------------------------------
\* Session rows

\* the run has upserted every session of the list
SessionStepDone(rr) == rr.stats.sessionsProcessed = Len(getSessions)

(* C23: once a run has finished its session step, every session of the      *)
(* list is stored with its current-flag true exactly when its end date is   *)
(* null (39 current, 38 and 37 not); every stored Session row has that      *)
(* flag at all times, and no step removes a Session row.                    *)
C23_CurrentSessionFlag ==
  /\ [](/\ \A r \in Runs :
             SessionStepDone(run[r])
             => \A i \in DOMAIN getSessions :
                  /\ Has(sessionT, getSessions[i].id)
                  /\ sessionT[getSessions[i].id].isCurrent
                       <=> (getSessions[i].endDate = 0)
        /\ \A s \in DOMAIN sessionT :
             sessionT[s].isCurrent <=> (sessionT[s].endDate = 0))
  /\ [][DOMAIN sessionT \subseteq DOMAIN sessionT']_vars

\* a run is past its session step: 39 is stored as current, 38 and 37 are
\* stored as not current
C23_Witness ==
  \E r \in Runs :
    /\ SessionStepDone(run[r])
    /\ run[r].pc = "fetchBills"
    /\ sessionT[39].isCurrent /\ sessionT[39].endDate = 0
    /\ ~sessionT[38].isCurrent /\ sessionT[38].endDate = 20240530
    /\ ~sessionT[37].isCurrent

\* ---------------------------------------------------------------------------
\* The trigger's type and the time of its acknowledgement

(* C24: a trigger call is acknowledged only for the types full and          *)
(* incremental and for an absent type, which runs an incremental sync; a    *)
(* call with any other type starts no run; at the acknowledgement the run   *)
(* it starts has taken no step (it has no SyncLog row and is not finished), *)
(* so the acknowledgement does not wait for the run's terminal state.       *)
C24_TypesAndEarlyAck ==
  [][ \A q \in Triggers :
        (trigger[q].pc = "respond" /\ trigger'[q].pc = "done")
        => /\ trigger'[q].status = 200
              => /\ trigger[q].type \in {"", "full", "incremental"}
                 /\ trigger'[q].ackType
                      = (IF trigger[q].type = "" THEN "incremental"
                                                 ELSE trigger[q].type)
                 /\ LET r == trigger'[q].run
                    IN  /\ r \in Started
                        /\ run'[r].type = trigger'[q].ackType
                        /\ run'[r].pc = "create"
                        /\ run'[r].logId = 0
                        /\ run'[r].outcome = "none"
           /\ trigger[q].type \notin {"", "full", "incremental"}
              => /\ trigger'[q].status \in {400, 409}
                 /\ Started = {}
                 /\ run' = run
           /\ syncLog' = syncLog ]_vars

\* a call has been acknowledged for an incremental sync whose run is still
\* under way, and another call, of an unknown type, was answered 400
C24_Witness ==
  \E q, p \in Triggers :
    /\ trigger[q].pc = "done" /\ trigger[q].status = 200
    /\ trigger[q].ackType = "incremental"
    /\ run[trigger[q].run].pc \notin {"idle", "create", "done"}
    /\ LogRow(run[trigger[q].run]).status = "running"
    /\ trigger[p].pc = "done" /\ trigger[p].status = 400

\* ---------------------------------------------------------------------------
\* The trigger's API key

\* the answers of a call that was turned away for its key
KeyRejections == {401, 500}

(* C25: a trigger call whose key is absent or differs from the server's     *)
(* key, or that arrives when the server has no key, is answered at once     *)
(* with 401 or 500 (500 when the server has no key), whatever the sync log  *)
(* holds; that step and every later one leave the call's record alone, so   *)
(* the call starts no run, and the step writes no SyncLog row.              *)
C25_KeyRequired ==
  /\ [][ /\ \A q \in Triggers, apiKey \in ApiKeys, type \in QueryTypes :
              (/\ TriggerArrives(q, apiKey, type)
               /\ serverKey = "" \/ apiKey = "" \/ apiKey # serverKey)
              => /\ trigger'[q].pc = "done"
                 /\ trigger'[q].status = (IF serverKey = "" THEN 500 ELSE 401)
                 /\ trigger'[q].run = 0
                 /\ run' = run
                 /\ syncLog' = syncLog
         /\ \A q \in Triggers :
              trigger[q].status \in KeyRejections => trigger'[q] = trigger[q]
       ]_vars
  /\ [](\A q \in Triggers :
          trigger[q].status \in KeyRejections
          => /\ trigger[q].pc = "done"
             /\ trigger[q].run = 0
             /\ trigger[q].ackType = "")
  /\ [](serverKey = "" => \A r \in Runs : run[r].pc = "idle")

\* a call was turned away with 401 while the sync log holds a `running` row
C25_Witness ==
  \E q \in Triggers :
    /\ trigger[q].status = 401
    /\ SomeRunning
    /\ Len(syncLog) = 1

\* ---------------------------------------------------------------------------
\* GET /sync/status

MaxLogRows == 3   \* rows of the sync log the status query is asked over
MaxTime == 3      \* completion times of those rows

\* a SyncLog row as a run leaves it: `running` rows have no completion time
LogRows ==
  { [ type |-> t, status |-> "running", completedAt |-> 0,
      error |-> <<>>, stats |-> <<>> ] : t \in {"full", "incremental"} }
  \cup
  { [ type |-> t, status |-> "completed", completedAt |-> n,
      error |-> <<>>, stats |-> << ZeroStats >> ] :
        t \in {"full", "incremental"}, n \in 1..MaxTime }
  \cup
  { [ type |-> t, status |-> "failed", completedAt |-> n,
      error |-> << "complete" >>, stats |-> << ZeroStats >> ] :
        t \in {"full", "incremental"}, n \in 1..MaxTime }

SyncLogs == UNION { [1..n -> LogRows] : n \in 0..MaxLogRows }

\* faulty variant: the status filter is left out of the query
LastCompletedAt_AnyStatus(log, type) ==
  LET rows == { i \in DOMAIN log : log[i].type = type }
  IN  IF rows = {} THEN 0
      ELSE log[CHOOSE i \in rows :
                 \A j \in rows : log[j].completedAt <= log[i].completedAt].completedAt

\* prisma.syncLog.findFirst({ where: { type, status: 'completed' },
\* orderBy: { completedAt: 'desc' } })?.completedAt || null   (0 is null)
LastCompletedAt(log, type) ==
  LET rows == { i \in DOMAIN log : log[i].type = type /\ log[i].status = "completed" }
  IN  IF rows = {} THEN 0
      ELSE log[CHOOSE i \in rows :
                 \A j \in rows : log[j].completedAt <= log[i].completedAt].completedAt

\* the body of the handler's answer
StatusBody(log) ==
  [ code |-> 200,
    lastFullSync |-> LastCompletedAt(log, "full"),
    lastIncrementalSync |-> LastCompletedAt(log, "incremental"),
    isRunning |-> (FindRunning(log) # 0),
    currentTask |-> IF FindRunning(log) # 0 THEN "Syncing data..." ELSE "",
    stats |-> [ bills |-> Cardinality(DOMAIN billT),
                amendments |-> Cardinality(DOMAIN amendT),
                members |-> Cardinality(DOMAIN memberT) ] ]

\* the handler's queries succeed: res.json(...)
GetStatus ==
  /\ statusReply' = StatusBody(syncLog)
  /\ UNCHANGED << syncVars, clientVars, listVars >>

\* one of the handler's queries rejects: the catch answers 500
GetStatusFails ==
  /\ statusReply' = [ code |-> 500 ]
  /\ UNCHANGED << syncVars, clientVars, listVars >>

InitStatus ==
  /\ up = 1
  /\ sessionT = EmptyTable /\ billT = EmptyTable /\ stageT = EmptyTable
  /\ sittingT = EmptyTable /\ amendT = EmptyTable /\ memberT = EmptyTable
  /\ sponsorT = <<>>
  /\ syncLog \in SyncLogs
  /\ run = [r \in Runs |-> IdleRun]
  /\ clock = MaxTime + 1
  /\ faults = 0
  /\ pre = Data
  /\ serverKey = "secret"
  /\ call = IdleCall
  /\ listing = NoListing
  /\ statusReply = NoReply
  /\ trigger = [q \in Triggers |-> NewTrigger]

NextStatus == GetStatus \/ GetStatusFails

StatusSpec == InitStatus /\ [][NextStatus]_vars

\* the completion times of the `completed` rows of a type
CompletedTimes(type) ==
  { syncLog[i].completedAt :
      i \in { j \in DOMAIN syncLog : /\ syncLog[j].type = type
                                     /\ syncLog[j].status = "completed" } }

\* `value` is the latest of `times`, or null when there is none
LatestOf(value, times) ==
  IF times = {} THEN value = 0
  ELSE value \in times /\ \A t \in times : t <= value

(* C26: an answered status query reports isRunning true exactly when some   *)
(* SyncLog row is `running`, the last full-sync time as the latest          *)
(* completion time among the `completed` rows of type full (null when       *)
(* there is none), and likewise for incremental: `failed` and `running`     *)
(* rows contribute to neither time.                                         *)
C26_StatusQuery ==
  statusReply.code = 200
  => /\ statusReply.isRunning <=> SomeRunning
     /\ LatestOf(statusReply.lastFullSync, CompletedTimes("full"))
     /\ LatestOf(statusReply.lastIncrementalSync, CompletedTimes("incremental"))

\* the query was answered over a log whose latest row of type full is a
\* `failed` one, later than the latest `completed` one, with a row `running`
C26_Witness ==
  /\ statusReply.code = 200
  /\ statusReply.isRunning
  /\ statusReply.lastFullSync = 1
  /\ statusReply.lastIncrementalSync = 0
  /\ \E i \in DOMAIN syncLog :
       /\ syncLog[i].type = "full" /\ syncLog[i].status = "failed"
       /\ syncLog[i].completedAt > 1

\* ---------------------------------------------------------------------------
\* The lead sponsor

\* the step in which run r finishes the sponsors of a non-empty payload
SponsorsReconciled(r) ==
  /\ run[r].pc = "createSponsor"
  /\ run'[r].pc \notin {"createSponsor", "upsertMember"}
  /\ run'[r].thrown = run[r].thrown

(* C28 as stated: after an amendment with a non-empty sponsor payload is    *)
(* reconciled, exactly one stored sponsor row has the lead flag, it is the  *)
(* row of the payload's first sponsor, and each stored sort order is the    *)
(* sponsor's position in the payload (counted from 0).                      *)
C28_ExactlyOneLead ==
  [][ \A r \in Runs :
        SponsorsReconciled(r)
        => LET rows == SponsorsOf(sponsorT', CurAmendment(run[r]).amendmentId)
               payload == CurAmendment(run[r]).sponsors
           IN  /\ Cardinality({i \in DOMAIN rows : rows[i].isLead}) = 1
               /\ rows[1].isLead
               /\ rows[1].memberId = payload[1].memberId
               /\ \A i \in DOMAIN rows : rows[i].sortOrder = i - 1 ]_vars

(* C28 (amended): after an amendment with a non-empty sponsor payload is    *)
(* reconciled, its stored sponsor rows are the payload's sponsors in the    *)
(* payload's order, each with the sortOrder value its payload entry         *)
(* carries and with the lead flag exactly when that value is 0; exactly     *)
(* one row is lead when exactly one entry of the payload has sortOrder 0.   *)
C28_LeadIsSortOrderZero ==
  [][ \A r \in Runs :
        SponsorsReconciled(r)
        => LET rows == SponsorsOf(sponsorT', CurAmendment(run[r]).amendmentId)
               payload == CurAmendment(run[r]).sponsors
           IN  /\ Len(rows) = Len(payload)
               /\ \A i \in DOMAIN rows :
                    /\ rows[i].memberId = payload[i].memberId
                    /\ rows[i].sortOrder = payload[i].sortOrder
                    /\ rows[i].isLead <=> (payload[i].sortOrder = 0)
               /\ Cardinality({i \in DOMAIN rows : rows[i].isLead})
                    = Cardinality({i \in DOMAIN payload : payload[i].sortOrder = 0})
      ]_vars

\* a run has reconciled amendment 101 from a payload whose sponsors carry
\* the sort orders 1 and 2: both rows are stored and neither is a lead
C28_Witness ==
  \E r \in Runs :
    /\ run[r].pc = "done"
    /\ run[r].thrown = <<>>
    /\ SponsorsOf(sponsorT, 101)
         = << [amendmentId |-> 101, memberId |-> 11, isLead |-> FALSE, sortOrder |-> 1],
              [amendmentId |-> 101, memberId |-> 10, isLead |-> FALSE, sortOrder |-> 2] >>

\* ---------------------------------------------------------------------------
\* The running-sync guard and the creation of the log row

(* C29: the guard is not atomic with the creation of the log row.  The      *)
(* check writes nothing; the answer is decided by what the check found,     *)
(* whatever the log holds when the answer is sent; and the acknowledged     *)
(* run creates its row only in a later step.  So two authenticated calls    *)
(* can both find no `running` row, both be acknowledged, and their runs     *)
(* execute at the same time.                                                *)
C29_GuardNotAtomic ==
  [][ \A q \in Triggers :
        /\ (trigger[q].pc = "findRunning" /\ trigger'[q].pc = "respond")
           => syncLog' = syncLog /\ run' = run
        /\ (trigger[q].pc = "respond" /\ trigger'[q].pc = "done")
           => /\ (trigger'[q].status = 409) <=> (trigger[q].runningSync # 0)
              /\ syncLog' = syncLog
              /\ trigger'[q].status = 200
                 => /\ run'[trigger'[q].run].logId = 0
                    /\ run'[trigger'[q].run].pc = "create" ]_vars

\* both calls have been acknowledged and their two runs are under way at the
\* same time, each with a `running` row
C29_Witness ==
  \E q, p \in Triggers :
    /\ q # p
    /\ trigger[q].run # trigger[p].run
    /\ \A t \in {q, p} :
         LET rr == run[trigger[t].run]
         IN  /\ trigger[t].pc = "done" /\ trigger[t].status = 200
             /\ rr.pc \notin {"idle", "create", "fail", "done"}
             /\ rr.logId # 0
             /\ syncLog[rr.logId].status = "running"
    /\ run[trigger[q].run].logId # run[trigger[p].run].logId

\* ---------------------------------------------------------------------------
\* The minimal member write

(* C30: the member write made while reconciling a sponsor creates a Member  *)
(* row only when no row with that member id is stored, and leaves a stored  *)
(* Member row unchanged.                                                    *)
C30_MinimalWriteKeepsProfile ==
  [][ \A r \in Runs :
        (run[r].pc = "upsertMember" /\ run'[r].pc = "createSponsor")
        => LET id == CurSponsor(run[r]).memberId
           IN  IF Has(memberT, id)
               THEN memberT' = memberT
               ELSE /\ DOMAIN memberT' = DOMAIN memberT \cup {id}
                    /\ \A m \in DOMAIN memberT : memberT'[m] = memberT[m] ]_vars

\* ---------------------------------------------------------------------------
\* The member pass

\* no element of the sequence occurs twice
NoRepeats(s) == \A i, j \in DOMAIN s : s[i] = s[j] => i = j

\* the run was aborted before its member pass
AbortedEarly(rr) == ThrownAt(rr) \cap {"upsertSession", "billLoop"} # {}

(* C31 as stated: in every run no profile is requested before the bill loop *)
(* is over, and every distinct member id met as a sponsor during the run    *)
(* has been requested exactly once when the run has ended.                  *)
C31_EveryMetMemberRequested ==
  \A r \in Runs :
    /\ run[r].requested # <<>> => run[r].si = Len(getSessions)
    /\ run[r].pc = "done"
       => /\ Range(run[r].requested) = Range(run[r].memberIdsToFetch)
          /\ NoRepeats(run[r].requested)

(* C31 (amended): in every run no profile is requested before the last bill *)
(* of the last session has been processed; a run that reaches its member    *)
(* pass requests every distinct member id met as a sponsor during the run   *)
(* (also one met in a bill that failed afterwards) exactly once, in the     *)
(* order met, and a run aborted before the member pass requests none; on    *)
(* success the member's house is stored as Commons when the upstream house  *)
(* code is 1 and as Lords otherwise.                                        *)
C31_MemberSecondPass ==
  /\ [](\A r \in Runs :
          LET rr == run[r]
          IN  /\ NoRepeats(rr.memberIdsToFetch)
              /\ rr.pc = "upsertMember"
                 => CurSponsor(rr).memberId \in Range(rr.memberIdsToFetch)
              /\ rr.requested # <<>>
                 => /\ rr.pc \in MemberPcs \cup {"complete", "fail", "done"}
                    /\ rr.si = Len(getSessions)
              /\ rr.pc = "getMember"
                 => rr.requested = SubSeq(rr.memberIdsToFetch, 1, rr.mi - 1)
              /\ rr.pc = "updateMember"
                 => rr.requested = SubSeq(rr.memberIdsToFetch, 1, rr.mi)
              /\ (rr.pc \in {"complete", "done"} /\ ~AbortedEarly(rr))
                 => rr.requested = rr.memberIdsToFetch
              /\ AbortedEarly(rr) => rr.requested = <<>>)
  /\ [][ \A r \in Runs :
           /\ run'[r].memberIdsToFetch # run[r].memberIdsToFetch
              => /\ run'[r].pc = "upsertMember"
                 /\ run'[r].memberIdsToFetch
                      = Append(run[r].memberIdsToFetch, CurSponsor(run'[r]).memberId)
           /\ (/\ run[r].pc = "updateMember"
               /\ run'[r].stats.membersProcessed = run[r].stats.membersProcessed + 1)
              => LET id == CurMemberId(run[r])
                 IN  memberT'[id].house
                       = (IF UpMember(up, id).house = 1 THEN "Commons" ELSE "Lords")
       ]_vars

\* a bill failed at the sponsor row of member 10, after the member was met;
\* the run went on to request the profile of 10 once and stored its house
C31_Witness ==
  \E r \in Runs :
    /\ run[r].pc = "done"
    /\ LogRow(run[r]).status = "completed"
    /\ Len(run[r].thrown) = 1 /\ run[r].thrown[1].at = "createSponsor"
    /\ run[r].memberIdsToFetch = << 10 >>
    /\ run[r].requested = << 10 >>
    /\ memberT[10].src = "profile" /\ memberT[10].house = "Commons"

\* ---------------------------------------------------------------------------
\* Overlapping runs: the cron and CLI scripts start a run without looking at
\* the sync log.  A full sync is started from the command line and the cron
\* job's incremental syncs start while it is under way.

\* upstream: bill 1 is carried over into session 39 while syncs are running
UpstreamCarriesOver ==
  /\ up = 1
  /\ up' = 2
  /\ UNCHANGED << dataVars, syncLog, run, clock, faults, pre, routeVars,
                  clientVars, listVars, statusVars >>

InitOverlap == Init /\ up = 1

NextOverlap ==
  \/ StartRun(1, "full")
  \/ \E r \in Runs \ {1} : StartRun(r, "incremental")
  \/ \E r \in Runs : RunStep(r)
  \/ UpstreamCarriesOver

OverlapSpec == InitOverlap /\ [][NextOverlap]_vars

(* C32: when two sync runs overlap, in every interleaving of their reads of *)
(* the stored session id and their bill upserts, the stored session id of   *)
(* a bill never decreases.                                                  *)
C32_MonotonicWhenOverlapping ==
  [][ \A b \in DOMAIN billT :
        b \in DOMAIN billT' /\ billT'[b].sessionId >= billT[b].sessionId ]_vars

\* ---------------------------------------------------------------------------
\* One retry counter for 429s and network failures

\* the responses of the call that were followed, or would be followed, by a
\* retry
Retryable == {"429", "network"}

(* C34: whatever mix of 429s and network failures a call meets, it sends   *)
(* at most 6 requests; the wait before the re-issue with retry count k is   *)
(* 1000 * 2^k ms whichever kind of failure came before; the retry count is  *)
(* the number of failures of both kinds met so far; and the failure met     *)
(* when the count has reached 5 ends the call with its error, unretried.    *)
C34_SharedRetryCounter ==
  LET n == Len(call.responses)
  IN  /\ call.requests = n
      /\ call.requests <= MAX_RETRIES + 1
      /\ \A k \in DOMAIN call.sleeps :
           /\ call.responses[k] \in Retryable
           /\ call.sleeps[k] = 1000 * 2^(k - 1)
      /\ call.pc = "fetch" => call.retries = n /\ Len(call.sleeps) = n
      /\ call.pc = "sleep" => call.retries = n - 1 /\ Len(call.sleeps) = n
      /\ (n = MAX_RETRIES + 1)
         => /\ call.pc \in {"returned", "threw"}
            /\ Len(call.sleeps) = MAX_RETRIES
            /\ call.responses[n] \in Retryable
               => /\ call.pc = "threw"
                  /\ call.error.kind
                       = (IF call.responses[n] = "429" THEN "RateLimited"
                                                       ELSE "Network")

\* a call met 429s and network failures in turn: after five waits of 1, 2,
\* 4, 8 and 16 seconds its sixth request failed to connect and ended it
C34_Witness ==
  /\ call.responses = << "429", "network", "429", "network", "429", "network" >>
  /\ call.sleeps = << 1000, 2000, 4000, 8000, 16000 >>
  /\ call.pc = "threw"
  /\ call.error.kind = "Network"

\* ---------------------------------------------------------------------------
\* A reconciliation that fails inside the sponsor loop

SponsorLoopPcs == {"upsertMember", "createSponsor"}

\* the rows of the first n sponsors of the payload, in payload order
SponsorPrefix(amendment, n) ==
  [i \in 1..n |-> SponsorRow(amendment.amendmentId, amendment.sponsors[i])]

(* C35: while a run is inside the sponsor loop of an amendment, and in the  *)
(* state left by a member upsert or sponsor create of that loop rejecting,  *)
(* the stored sponsor rows of the amendment are exactly the rows of the     *)
(* payload's sponsors before the one in hand, in payload order: no row of   *)
(* the previous set is among them.                                         *)
C35_PartialSponsorLoop ==
  /\ [] \A r \in Runs :
          run[r].pc \in SponsorLoopPcs
          => SponsorsOf(sponsorT, CurAmendment(run[r]).amendmentId)
               = SponsorPrefix(CurAmendment(run[r]), run[r].spi - 1)
  /\ [][ \A r \in Runs :
           (/\ run[r].pc \in SponsorLoopPcs
            /\ run'[r].thrown # run[r].thrown)
           => SponsorsOf(sponsorT', CurAmendment(run[r]).amendmentId)
                = SponsorPrefix(CurAmendment(run[r]), run[r].spi - 1) ]_vars

\* amendment 101 had the rows of members 10 (lead) and 11; a run given the
\* payload [11 (sort order 1), 10 (sort order 2)] failed at its second
\* sponsor and has left the row of member 11 alone
C35_Witness ==
  \E r \in Runs :
    /\ Latest(r)
    /\ run[r].thrown # <<>>
    /\ LastThrown(run[r]).at \in SponsorLoopPcs
    /\ SponsorsOf(pre.sponsors, 101)
         = << [amendmentId |-> 101, memberId |-> 10, isLead |-> TRUE, sortOrder |-> 0],
              [amendmentId |-> 101, memberId |-> 11, isLead |-> FALSE, sortOrder |-> 1] >>
    /\ SponsorsOf(sponsorT, 101)
         = << [amendmentId |-> 101, memberId |-> 11, isLead |-> FALSE, sortOrder |-> 1] >>

\* ---------------------------------------------------------------------------
\* Rows whose upstream original has been removed

\* upstream: stage 12 and amendment 102 are removed between two runs
UpstreamRemoves ==
  /\ NoActiveRun
  /\ up = 7
  /\ up' = 8
  /\ UNCHANGED << dataVars, syncLog, run, clock, faults, pre, routeVars,
                  clientVars, listVars, statusVars >>

InitRemoval ==
  /\ up = 7
  /\ sessionT = EmptyTable /\ billT = EmptyTable /\ stageT = EmptyTable
  /\ sittingT = EmptyTable /\ amendT = EmptyTable /\ memberT = EmptyTable
  /\ sponsorT = <<>>
  /\ syncLog = <<>>
  /\ run = [r \in Runs |-> IdleRun]
  /\ clock = 1
  /\ faults = 0
  /\ pre = Data
  /\ serverKey = "secret"
  /\ call = IdleCall
  /\ listing = NoListing
  /\ statusReply = NoReply
  /\ trigger = [q \in Triggers |-> NewTrigger]

NextRemoval ==
  \/ \E r \in Runs, type \in {"full", "incremental"} : NoActiveRun /\ StartRun(r, type)
  \/ \E r \in Runs : RunStep(r)
  \/ \E r \in Runs : RunFault(r)
  \/ UpstreamRemoves

RemovalSpec == InitRemoval /\ [][NextRemoval]_vars

\* the sponsor rows a step removes
RemovedSponsors == Range(sponsorT) \ Range(sponsorT')

(* C36: no step of a sync run removes an id from the Bill, BillStage,       *)
(* BillStageSitting, Amendment or Member table, so the rows of a stage, a   *)
(* sitting or an amendment that the upstream no longer lists stay stored;   *)
(* a step that removes AmendmentSponsor rows is the deleteMany of a run,    *)
(* and every row it removes belongs to the amendment that run is            *)
(* reconciling.                                                            *)
C36_NoDeletes ==
  [][ /\ DOMAIN billT \subseteq DOMAIN billT'
      /\ DOMAIN stageT \subseteq DOMAIN stageT'
      /\ DOMAIN sittingT \subseteq DOMAIN sittingT'
      /\ DOMAIN amendT \subseteq DOMAIN amendT'
      /\ DOMAIN memberT \subseteq DOMAIN memberT'
      /\ RemovedSponsors # {}
         => \E r \in Runs :
              /\ run[r].pc = "deleteSponsors"
              /\ run'[r].pc # "deleteSponsors"
              /\ \A row \in RemovedSponsors :
                   row.amendmentId = CurAmendment(run[r]).amendmentId ]_vars

\* a full run stored stage 12, sitting 121 and amendment 102 with its
\* sponsors; a later run against the upstream that has lost them completed,
\* replaced the sponsor rows of amendment 101 and left all of those in place
C36_Witness ==
  \E r \in Runs :
    /\ run[r].pc = "done" /\ run[r].outcome = "returned"
    /\ run[r].world = 8 /\ run[r].thrown = <<>>
    /\ Len(UpStages(8, 1)) = 1
    /\ Len(UpAmendments(8, 11)) = 1
    /\ Has(stageT, 12) /\ stageT[12].rev = 7
    /\ Has(sittingT, 121)
    /\ Has(amendT, 102) /\ amendT[102].rev = 7
    /\ Len(SponsorsOf(sponsorT, 102)) = 2
    /\ Len(SponsorsOf(sponsorT, 101)) = 2
    /\ Has(amendT, 101) /\ amendT[101].rev = 8

\* ---------------------------------------------------------------------------
\* Bills that stop being active between a full and an incremental run

\* an incremental run is under way
IncrementalUnderWay == \E r \in Runs : ~Idle(r) /\ run[r].type = "incremental"

\* the ids whose Bill row a step writes
WrittenBills == {b \in DOMAIN billT' : ~Has(billT, b) \/ billT'[b] # billT[b]}

(* C37: every Bill row a step of an incremental run writes has its          *)
(* withdrawn, defeated and act flags all false, and a stored bill that the  *)
(* upstream now serves as withdrawn, defeated or an act has its whole row   *)
(* left as it is by every step of an incremental run.                       *)
C37_IncrementalLeavesInactive ==
  [][ IncrementalUnderWay
      => /\ \A b \in WrittenBills :
              /\ ~billT'[b].isWithdrawn
              /\ ~billT'[b].isDefeated
              /\ ~billT'[b].isAct
         /\ \A b \in DOMAIN billT :
              Inactive(UpBill(up, b)) => billT'[b] = billT[b] ]_vars

\* a full run stored the bills 2, 3 and 4 while they were active; they were
\* then withdrawn, defeated and enacted, and an incremental run that
\* rewrote bill 1 has completed with their rows as the full run left them
C37_Witness ==
  \E q, r \in Runs :
    /\ q < r
    /\ run[q].type = "full" /\ run[q].world = 7 /\ run[q].pc = "done"
    /\ run[r].type = "incremental" /\ run[r].world = 8
    /\ run[r].pc = "done" /\ run[r].outcome = "returned" /\ run[r].thrown = <<>>
    /\ up = 8
    /\ UpBill(8, 2).billWithdrawn /\ UpBill(8, 3).isDefeated /\ UpBill(8, 4).isAct
    /\ \A b \in {2, 3, 4} :
         /\ Has(billT, b)
         /\ billT[b].rev = 7
         /\ ~billT[b].isWithdrawn /\ ~billT[b].isDefeated /\ ~billT[b].isAct
    /\ Has(billT, 1) /\ billT[1].rev = 8
    /\ run[r].stats.billsSkipped = 3

\* ---------------------------------------------------------------------------
\* A run that stops without its terminal write

\* the process is killed, or the operation the run awaits never settles
\* (no call has a timeout): the run takes no further step
RunStops(r) ==
  /\ run[r].pc \notin {"idle", "done", "stopped"}
  /\ run' = [run EXCEPT ![r].pc = "stopped"]
  /\ UNCHANGED << up, dataVars, syncLog, clock, faults, pre, routeVars,
                  clientVars, listVars, statusVars >>

\* a `running` row whose run has ended or stopped
Orphaned(i) ==
  /\ i \in DOMAIN syncLog
  /\ syncLog[i].status = "running"
  /\ \E r \in Runs : run[r].logId = i /\ run[r].pc \in {"done", "stopped"}

SomeOrphaned == \E i \in DOMAIN syncLog : Orphaned(i)

InitOrphan ==
  /\ up = 4
  /\ sessionT = EmptyTable /\ billT = EmptyTable /\ stageT = EmptyTable
  /\ sittingT = EmptyTable /\ amendT = EmptyTable /\ memberT = EmptyTable
  /\ sponsorT = <<>>
  /\ syncLog = <<>>
  /\ run = [r \in Runs |-> IdleRun]
  /\ clock = 1
  /\ faults = 0
  /\ pre = Data
  /\ serverKey = "secret"
  /\ call = IdleCall
  /\ listing = NoListing
  /\ statusReply = NoReply
  /\ trigger = [q \in Triggers |-> NewTrigger]

\* trigger calls and the runs they start, runs that fail or stop, and status
\* queries asked once a run has left its row behind
NextOrphan ==
  \/ \E q \in Triggers, apiKey \in ApiKeys, type \in QueryTypes :
       TriggerArrives(q, apiKey, type)
  \/ \E q \in Triggers : TriggerFindRunning(q)
  \/ \E q \in Triggers : TriggerRespond(q)
  \/ \E r \in Runs : RunStep(r)
  \/ \E r \in Runs : FatalThrows(r)
  \/ \E r \in Runs : MarkFailed(r)
  \/ \E r \in Runs : MarkFailedThrows(r)
  \/ \E r \in Runs : RunStops(r)
  \/ SomeOrphaned /\ GetStatus
  \/ SomeOrphaned /\ GetStatusFails

OrphanSpec == InitOrphan /\ [][NextOrphan]_vars

(* C38 as stated: once a run has stopped and left its row `running`, every  *)
(* later trigger call, whatever key it carries, is answered with the        *)
(* conflict response.                                                      *)
C38_EveryLaterCallConflicts ==
  [][ \A q \in Triggers :
        (SomeOrphaned /\ trigger[q].pc = "new" /\ trigger'[q].pc = "done")
        => trigger'[q].status = 409 ]_vars

(* C38: a `running` row is changed only by the terminal write of the run    *)
(* that created it; when that run has ended or stopped without the write    *)
(* the row stays `running` in every later state, every status query that    *)
(* is answered reports a running sync, and every later authenticated        *)
(* trigger call finds the row, is answered 409 and starts no run.           *)
C38_RunningRowOrphaned ==
  [][ /\ \A i \in DOMAIN syncLog :
           syncLog[i].status = "running"
           => /\ i \in DOMAIN syncLog'
              /\ syncLog'[i] # syncLog[i]
                 => \E r \in Runs :
                      /\ run[r].logId = i
                      /\ run[r].pc \in {"complete", "fail"}
                      /\ run'[r].pc = "done"
              /\ Orphaned(i) => syncLog'[i] = syncLog[i] /\ Orphaned(i)'
      /\ (SomeOrphaned /\ GetStatus)
         => /\ statusReply'.code = 200
            /\ statusReply'.isRunning
            /\ statusReply'.currentTask = "Syncing data..."
      /\ \A q \in Triggers :
           /\ (SomeOrphaned /\ TriggerFindRunning(q))
              => trigger'[q].runningSync # 0
           /\ (trigger[q].pc = "respond" /\ trigger[q].runningSync # 0
               /\ trigger'[q] # trigger[q])
              => /\ trigger'[q].pc = "done" /\ trigger'[q].status = 409
                 /\ run' = run /\ syncLog' = syncLog ]_vars

\* the only run, started by an acknowledged call, has stopped and left its
\* row `running`; another authenticated call has been answered 409 and the
\* status query has reported a running sync
C38_Witness ==
  \E r \in Runs, q, p \in Triggers :
    /\ run[r].pc = "stopped" /\ run[r].logId # 0
    /\ Orphaned(run[r].logId)
    /\ trigger[q].run = r /\ trigger[q].status = 200
    /\ p # q /\ trigger[p].pc = "done" /\ trigger[p].status = 409
    /\ statusReply.code = 200 /\ statusReply.isRunning
    /\ \A o \in Runs \ {r} : run[o].pc = "idle"

\* ---------------------------------------------------------------------------
\* The statistics of a run

\* the number of rejections a run has met at one of the given places
ThrowsAt(rr, places) == Cardinality({i \in DOMAIN rr.thrown : rr.thrown[i].at \in places})

\* the number of entries of a kind in the run's error list
ErrorsOf(rr, kind) ==
  Cardinality({i \in DOMAIN rr.stats.errors : rr.stats.errors[i].kind = kind})

\* the bill list of session s reached the run
ListFetched(rr, s) ==
  \A i \in DOMAIN rr.thrown : ~(rr.thrown[i].at = "fetchBills" /\ rr.thrown[i].id = s)

\* the listings (all, or those satisfying Test) of the lists the run fetched
ListingsOf(rr, Test(_)) ==
  LET n(s) == IF ListFetched(rr, s) THEN CountIf(UpBills(rr.world, s), Test) ELSE 0
  IN  n(39) + n(38) + n(37)

AnyBill(bill) == TRUE

\* the run went through the bill loop of every session
LoopedAllSessions(rr) == ThrowsAt(rr, {"upsertSession", "billLoop"}) = 0

(* C39: the statistics a run's terminal write stores are the counters the   *)
(* run holds; one error string is held per rejected bill reconciliation     *)
(* and one per rejected bill-list fetch, and nothing else; and for a run    *)
(* that went through every session: it counted every session, counted as    *)
(* processed every listing whose bill upsert succeeded (whatever happened   *)
(* to the bill afterwards, and once per listing), and every listing of a    *)
(* fetched list is counted as processed or as skipped or has an error       *)
(* entry.                                                                  *)
C39_StatisticsMatch ==
  \A r \in Runs :
    LET rr == run[r]
        st == rr.stats
        kept == IF rr.type = "full" THEN ListingsOf(rr, AnyBill)
                                    ELSE ListingsOf(rr, NotInactive)
    IN  (rr.pc = "done" /\ Terminal(LogRow(rr)))
        => /\ LogRow(rr).stats = << st >>
           /\ ErrorsOf(rr, "bill") = ThrowsAt(rr, BillPcs)
           /\ ErrorsOf(rr, "session") = ThrowsAt(rr, {"fetchBills"})
           /\ Len(st.errors) = ErrorsOf(rr, "bill") + ErrorsOf(rr, "session")
           /\ LoopedAllSessions(rr)
              => /\ st.sessionsProcessed = Len(getSessions)
                 /\ st.billsSkipped = ListingsOf(rr, AnyBill) - kept
                 /\ st.billsProcessed = kept - ThrowsAt(rr, {"findBill", "upsertBill"})
                 /\ st.billsProcessed + st.billsSkipped + ErrorsOf(rr, "bill")
                      >= ListingsOf(rr, AnyBill)

\* a full run over bill 1 (listed under sessions 39 and 38) and the bills 2,
\* 3 and 4 completed after the stage request of one bill was rejected: five
\* listings are counted as processed, four bills are stored, and the error
\* list has the one entry
C39_Witness ==
  \E r \in Runs :
    /\ run[r].pc = "done" /\ run[r].type = "full" /\ run[r].world = 2
    /\ LogRow(run[r]).status = "completed"
    /\ ThrowsAt(run[r], {"getStages"}) = 1
    /\ run[r].stats.billsProcessed = 5
    /\ Cardinality(DOMAIN billT) = 4
    /\ Len(run[r].stats.errors) = 1
    /\ LogRow(run[r]).stats = << run[r].stats >>

====
